---------------------------- MODULE Spec2Model ----------------------------
(***************************************************************************)
(* ZeroPay: chain scanner, settlement engine, sweeper and x402 settle.     *)
(*                                                                         *)
(* One EVM chain with one configured token.  The state is the chain (head, *)
(* Transfer logs, token balance and allowance of every deposit address,    *)
(* the transactions accepted by the chain), the scanner task, the          *)
(* unbounded channel, the settlement-engine task (its position inside      *)
(* handle_evm_deposit / Storage::deposited / transfer / Storage::settled   *)
(* and its locals), the database tables (deposits, sessions, chains), the  *)
(* Redis keys (zpc and zpt), the webhook requests the merchant received,   *)
(* and the HTTP handler tasks of the x402 payment route.                   *)
(*                                                                         *)
(* Widths: TLC integers are 32 bit, so U256 is kept as an unsigned integer *)
(* of 30 bits (U256Mod) and i32 as a signed integer of 21 bits (I32Max);   *)
(* +, - and * wrap modulo U256Mod exactly as alloy's U256 operators wrap   *)
(* modulo 2^256, and try_into fails above I32Max.                          *)
(***************************************************************************)
EXTENDS Integers, Sequences, FiniteSets, TLC

\* ------------------------------------------------------------------ bounds
MaxBlock     == 2   \* blocks mined after the service started
MaxSessions  == 2   \* rows of the sessions table
MaxRestarts  == 1   \* process restarts
NumCustomers == 1   \* customers (deposit addresses) that may be created
NumTasks     == 2   \* concurrent HTTP handler tasks of POST /x402/payments
MaxNow       == 3   \* the clock runs from 1 to MaxNow
MaxBuilds    == 3   \* payloads the client signer builds

\* --------------------------------------------------------------- constants
U256Mod == 1073741824          \* alloy U256, scaled to 30 bits
I32Max  == 1048575             \* i32::MAX, scaled to 21 bits
MaxBlocksPerScan == 100        \* max_blocks_per_scan
SessionLife == 1               \* expired_at - created: 24 h, scaled to one second
U64Mod  == 1048576             \* u64, scaled to 20 bits
\* The scanner stops once last_scanned_block would pass this block.
MaxCursor == MaxBlock + MaxBlocksPerScan + 1
Null    == -1                  \* Option::None / SQL NULL of an i32 column

Min(a, b) == IF a <= b THEN a ELSE b
Max(a, b) == IF a >= b THEN a ELSE b

RECURSIVE Pow10(_)
Pow10(n) == IF n = 0 THEN 1 ELSE 10 * Pow10(n - 1)

\* U256 wrapping operators (ruint: Add/Sub/Mul are wrapping_add/_sub/_mul).
U256Add(a, b) == (a + b) % U256Mod
U256Sub(a, b) == (a - b + U256Mod) % U256Mod
RECURSIVE U256Mul(_, _)
U256Mul(a, b) ==
    IF b = 0 THEN 0
    ELSE LET h == U256Mul(a, b \div 2)
             d == (2 * h) % U256Mod
         IN  IF b % 2 = 1 THEN (d + a) % U256Mod ELSE d

\* A conversion that divides by ten to the power of all the decimals.
u256_to_i32_all_decimals(amount, decimal) ==
    LET res == IF decimal > 2
               THEN amount \div Pow10(decimal)
               ELSE U256Mul(amount, Pow10(2 - decimal))
    IN  IF res > I32Max THEN 0 ELSE res

\* evm::u256_to_i32: atomic units -> 2-decimal minor units.
u256_to_i32(amount, decimal) ==
    LET res == IF decimal > 2
               THEN amount \div Pow10(decimal - 2)
               ELSE U256Mul(amount, Pow10(2 - decimal))
    IN  IF res > I32Max THEN 0 ELSE res          \* try_into().unwrap_or(0)

\* A conversion that leaves the configured value as it is.
i32_to_u256_unscaled(amount, decimal) == amount

\* evm::i32_to_u256: 2-decimal minor units -> atomic units.
i32_to_u256(amount, decimal) ==
    IF decimal > 2
    THEN U256Mul(amount, Pow10(decimal - 2))
    ELSE amount \div Pow10(2 - decimal)

\* A fee that applies the lower limit before the upper limit.
fee_upper_limit_last(balance, commission_rate, commission_min, commission_max) ==
    IF commission_rate > 0
    THEN Min(Max(U256Mul(balance, commission_rate) \div 100, commission_min), commission_max)
    ELSE 0

\* A commission that applies the limits whatever the rate.
fee_limits_always(balance, commission_rate, commission_min, commission_max) ==
    LET rate     == U256Mul(balance, commission_rate) \div 100
        rate_max == Min(rate, commission_max)
    IN  Max(rate_max, commission_min)

\* transfer: the commission kept by the admin wallet.
fee(balance, commission_rate, commission_min, commission_max) ==
    IF commission_rate > 0
    THEN LET rate     == U256Mul(balance, commission_rate) \div 100
             rate_max == Min(rate, commission_max)
         IN  Max(rate_max, commission_min)
    ELSE 0

\* transfer: the amount sent to the merchant (U256 subtraction wraps).
real(balance, f) == U256Sub(balance, f)


\* ------------------------------------------------------------------- state
VARIABLES
    cfg,          \* ChainConfig of the chain and Storage.webhook
    head,         \* eth_blockNumber
    logs,         \* logs[b]: the Transfer logs of the transaction of block b
    bal,          \* token.balanceOf(deposit address)
    allow,        \* token.allowance(deposit address, admin)
    txs,          \* transactions the chain accepted, in order
    lastScanned,  \* Scanner.last_scanned_block
    scanRes,      \* what the last scan_iteration of Scanner::run returned
    chan,         \* the unbounded channel of ScannerMessage
    pc,           \* position of the settlement-engine task
    msg,          \* the Deposit message being handled
    loc,          \* locals of handle_evm_deposit / deposited / transfer
    res,          \* what handle_evm_deposit returned for the last message
    deposits,     \* table deposits (row id = index)
    sessions,     \* table sessions (row id = index)
    customers,    \* table customers (ids)
    cursor,       \* table chains: block of the chain's row, 0 when no row
    addrIndex,    \* Redis keys zpc:<address>
    txSeen,       \* Redis keys zpt:<tx>
    hooks,        \* webhook requests that reached the merchant, in order
    xpc,          \* position and locals of every x402_payment handler task
    authUsed,     \* token.authorizationState(from, nonce)
    now,          \* the clock, in seconds
    payerBal,     \* token.balanceOf(payer)
    offered,      \* the VerifyRequest bodies clients post
    built,        \* the authorizations the client signer built, in order
    restarts,     \* how often the process was restarted
    calc          \* inputs and result of a stand-alone computation

vars == <<cfg, head, logs, bal, allow, txs, lastScanned, scanRes, chan, pc, msg, loc, res, deposits, sessions, customers, cursor, addrIndex, txSeen, hooks, xpc, authUsed, now, payerBal, offered, built, restarts, calc>>

chainVars  == <<head, logs, bal, allow, txs>>
dbVars     == <<deposits, sessions, customers, cursor>>
redisVars  == <<addrIndex, txSeen>>
engineVars == <<pc, msg, loc, res>>
x402Vars   == <<xpc, authUsed, now, payerBal, offered, built>>

\* Deposit addresses: address c is generate_eth(0, c, mnemonics).
Addrs  == 1..NumCustomers
Tasks  == 1..NumTasks
\* Authorization nonces.
Nonces == 1..NumTasks
\* Transfer values (atomic units) and session amounts (minor units).
Values  == {50000, 5000000}
Amounts == {5, 500}
\* A block holds one transaction with at most two Transfer logs; the
\* transaction hash of block b is b.
LogSet       == [to : Addrs, value : Values]
BlockChoices == {<<>>} \cup {<<l>> : l \in LogSet} \cup {<<l, l>> : l \in LogSet}
\* token.totalSupply()
TotalSupply  == 1000 * 1000 * 1000

\* The configuration of scenario S1 (config.toml: commission = 1,
\* commission_min = 10, commission_max = 100000; token of 6 decimals).
S1Config == [decimal |-> 6, commission |-> 1, commission_min |-> 10, commission_max |-> 100000, webhook |-> TRUE, latency |-> 0, faults |-> {}]

\* What may fail in a run: Redis commands ("kv"), database SELECTs ("dbr"),
\* database INSERTs and UPDATEs ("dbw"), webhook requests ("hook"), chain
\* RPC calls of the sweep ("rpc"); "crash" lets the
\* process restart and "ttl" lets zpt keys expire.  A step of the kind k
\* succeeds or fails when k is in cfg.faults and succeeds otherwise.
FaultKinds == {"kv", "dbr", "dbw", "hook", "rpc", "crash", "ttl"}
Oks(kind)  == IF kind \in cfg.faults THEN BOOLEAN ELSE {TRUE}
Configs    == {[S1Config EXCEPT !.faults = {k}] : k \in FaultKinds} \cup {S1Config, [S1Config EXCEPT !.commission = 0], [S1Config EXCEPT !.webhook = FALSE]}

\* chain.assets: the tokens of the chain's configuration
ChainAssets == {"token"}

NoMsg == [type |-> "None", token |-> "", to |-> 0, value |-> 0, tx |-> 0, block |-> 0]
NoLoc == [cid |-> 0, did |-> 0, amount |-> 0, sid |-> 0, balance |-> 0, need_approve |-> FALSE, fee |-> 0, real |-> 0, hash |-> 0]
NoCalc == [state |-> "off"]
NoReq == [asset |-> "", max_amount_required |-> 0, pay_to |-> "", authorization |-> [from |-> "", to |-> "", value |-> 0, valid_after |-> 0, valid_before |-> 0, nonce |-> 0], signature |-> [by |-> "", over |-> 0]]
Idle == [at |-> "idle", req |-> NoReq, balance |-> 0, clock |-> 0, ver |-> [is_valid |-> FALSE, invalid_reason |-> "none"], resp |-> [success |-> FALSE, error_reason |-> "none"], status |-> FALSE]

DepositMsg(to, value, tx) == [type |-> "Deposit", token |-> "token", to |-> to, value |-> value, tx |-> tx, block |-> 0]
ScannedMsg(block) == [type |-> "Scanned", token |-> "", to |-> 0, value |-> 0, tx |-> 0, block |-> block]

InitCommon ==
    /\ head = 0 /\ logs = <<>>
    /\ bal = [a \in Addrs |-> 0] /\ allow = [a \in Addrs |-> 0] /\ txs = <<>>
    /\ lastScanned = 0 /\ scanRes = "None" /\ chan = <<>>
    /\ pc = "recv" /\ msg = NoMsg /\ loc = NoLoc /\ res = "None"
    /\ deposits = <<>> /\ sessions = <<>> /\ customers = {} /\ cursor = 0
    /\ addrIndex = {} /\ txSeen = {} /\ hooks = <<>>
    /\ xpc = [t \in Tasks |-> Idle] /\ authUsed = {}
    /\ now = 1 /\ payerBal = 0 /\ offered = {} /\ built = <<>>
    /\ restarts = 0

Init ==
    /\ cfg \in Configs
    /\ InitCommon
    /\ calc = NoCalc

\* ------------------------------------------------------------------- chain
RECURSIVE Credit(_, _)
Credit(b, ls) == IF ls = <<>> THEN b ELSE Credit([b EXCEPT ![Head(ls).to] = U256Add(@, Head(ls).value)], Tail(ls))

\* A block is mined: its Transfer logs credit the deposit addresses.
Mine ==
    /\ head < MaxBlock
    /\ \E ls \in BlockChoices :
          /\ logs' = Append(logs, ls)
          /\ bal' = Credit(bal, ls)
    /\ head' = head + 1
    /\ UNCHANGED <<cfg, allow, txs, lastScanned, scanRes, chan, engineVars, dbVars, redisVars, hooks, x402Vars, restarts, calc>>

\* ----------------------------------------------------------------- scanner
\* u64 subtraction that wraps (the width is scaled to 20 bits).
U64Sub(a, b) == (a + U64Mod - b) % U64Mod

RECURSIVE BlockMsgs(_, _)
BlockMsgs(b, ls) == IF ls = <<>> THEN <<>> ELSE <<DepositMsg(Head(ls).to, Head(ls).value, b)>> \o BlockMsgs(b, Tail(ls))

\* Scanner::scan_range + handle_event: one Deposit per log, in log order.
RECURSIVE scan_range(_, _)
scan_range(from_block, to_block) == IF from_block > to_block THEN <<>> ELSE BlockMsgs(from_block, logs[from_block]) \o scan_range(from_block + 1, to_block)

\* A scan iteration that sends the messages of the range but does not move
\* last_scanned_block.
scan_iteration_stays ==
    LET latest_block == head - cfg.latency
        from_block   == lastScanned + 1
        to_block     == Min(from_block + MaxBlocksPerScan, latest_block)
    IN  /\ scanRes # "Panic"
        /\ head >= cfg.latency
        /\ latest_block > lastScanned
        /\ chan' = chan \o scan_range(from_block, to_block) \o <<ScannedMsg(to_block)>>
        /\ lastScanned' = lastScanned
        /\ scanRes' = "Ok"
        /\ UNCHANGED <<cfg, chainVars, engineVars, dbVars, redisVars, hooks, x402Vars, restarts, calc>>

\* Scanner::scan_iteration when every RPC call succeeds: Ok(0) without new
\* blocks, else the messages of the range, then Scanned(to_block).  The
\* subtraction is the u64 one of a build without overflow checks; get_logs
\* returns the logs of the blocks of the range that exist.
scan_iteration ==
    LET latest_block == U64Sub(head, cfg.latency)
        from_block   == lastScanned + 1
        to_block     == Min(from_block + MaxBlocksPerScan, latest_block)
    IN  /\ scanRes # "Panic"
        /\ IF latest_block <= lastScanned
           THEN UNCHANGED <<chan, lastScanned>>
           ELSE /\ to_block <= MaxCursor
                /\ chan' = chan \o scan_range(from_block, Min(to_block, head)) \o <<ScannedMsg(to_block)>>
                /\ lastScanned' = to_block
        /\ scanRes' = "Ok"
        /\ UNCHANGED <<cfg, chainVars, engineVars, dbVars, redisVars, hooks, x402Vars, restarts, calc>>

\* Scanner::scan_iteration while the chain is shorter than the latency, in a
\* build with overflow checks: the subtraction panics and the scanner task
\* ends.
scan_overflow_panic ==
    /\ scanRes # "Panic"
    /\ head < cfg.latency
    /\ scanRes' = "Panic"
    /\ UNCHANGED <<cfg, chainVars, lastScanned, chan, engineVars, dbVars, redisVars, hooks, x402Vars, restarts, calc>>

\* Scanner::scan_iteration when get_block_number or get_logs fails: the error
\* is returned before anything is sent, Scanner::run logs it and sleeps.
scan_failed ==
    /\ "rpc" \in cfg.faults
    /\ scanRes # "Panic"
    /\ scanRes' = "Err"
    /\ UNCHANGED <<cfg, chainVars, lastScanned, chan, engineVars, dbVars, redisVars, hooks, x402Vars, restarts, calc>>

\* -------------------------------------------------------------- HTTP layer
\* api::create_session: Customer::get_or_insert, Session::insert,
\* store_address_in_redis.
create_session ==
    /\ Len(sessions) < MaxSessions
    /\ \E c \in Addrs, a \in Amounts :
          /\ customers' = customers \cup {c}
          /\ sessions' = Append(sessions, [customer |-> c, amount |-> a, deposit |-> Null, sent |-> FALSE, expired_at |-> now + SessionLife])
          /\ addrIndex' = addrIndex \cup {c}
    /\ UNCHANGED <<cfg, chainVars, lastScanned, scanRes, chan, engineVars, deposits, cursor, txSeen, hooks, x402Vars, restarts, calc>>


\* ------------------------------------------------------- settlement engine
\* A listen loop that ends when handle_evm_deposit returns an error.
ReturnOrStop(r) == pc' = (IF r = "Ok" THEN "recv" ELSE "stopped") /\ res' = r /\ msg' = NoMsg /\ loc' = NoLoc

\* handle_evm_deposit returns r; listen drops the result and loops.
Return(r) == pc' = "recv" /\ res' = r /\ msg' = NoMsg /\ loc' = NoLoc

\* listen: a Scanned message; Storage::set_scanned_block (ChainBlock::insert,
\* its error dropped).
listen_scanned ==
    /\ pc = "recv" /\ chan # <<>> /\ Head(chan).type = "Scanned"
    /\ chan' = Tail(chan)
    /\ \E ok \in Oks("dbw") : cursor' = IF ok THEN Head(chan).block ELSE cursor
    /\ UNCHANGED <<cfg, chainVars, lastScanned, scanRes, engineVars, deposits, sessions, customers, redisVars, hooks, x402Vars, restarts, calc>>

\* listen: a Deposit message enters handle_evm_deposit.
listen_deposit ==
    /\ pc = "recv" /\ chan # <<>> /\ Head(chan).type = "Deposit"
    /\ chan' = Tail(chan)
    /\ msg' = Head(chan) /\ loc' = NoLoc /\ res' = "None"
    /\ pc' = "contains_address"
    /\ UNCHANGED <<cfg, chainVars, lastScanned, scanRes, dbVars, redisVars, hooks, x402Vars, restarts, calc>>

\* Storage::contains_address
contains_address ==
    /\ pc = "contains_address"
    /\ \E ok \in Oks("kv") :
          IF ~ok THEN Return("KvError")
          ELSE IF msg.to \notin addrIndex THEN Return("NoAddress")
          ELSE /\ loc' = [loc EXCEPT !.cid = msg.to]
               /\ pc' = "no_transaction"
               /\ UNCHANGED <<msg, res>>
    /\ UNCHANGED <<cfg, chainVars, lastScanned, scanRes, chan, dbVars, redisVars, hooks, x402Vars, restarts, calc>>

\* handle_evm_deposit without the lookup of the token in chain.assets
no_transaction_any_token ==
    /\ pc = "no_transaction"
    /\ \E ok \in Oks("kv") :
          IF ~ok THEN Return("KvError")
          ELSE IF msg.tx \in txSeen THEN Return("HadTransaction")
          ELSE /\ loc' = [loc EXCEPT !.amount = u256_to_i32(msg.value, cfg.decimal)]
               /\ pc' = "deposit_insert"
               /\ UNCHANGED <<msg, res>>
    /\ UNCHANGED <<cfg, chainVars, lastScanned, scanRes, chan, dbVars, redisVars, hooks, x402Vars, restarts, calc>>

\* Storage::no_transaction, then the asset lookup and evm::u256_to_i32.
no_transaction ==
    /\ pc = "no_transaction"
    /\ \E ok \in Oks("kv") :
          IF ~ok THEN Return("KvError")
          ELSE IF msg.tx \in txSeen THEN Return("HadTransaction")
          ELSE IF msg.token \notin ChainAssets THEN Return("NoToken")
          ELSE /\ loc' = [loc EXCEPT !.amount = u256_to_i32(msg.value, cfg.decimal)]
               /\ pc' = "deposit_insert"
               /\ UNCHANGED <<msg, res>>
    /\ UNCHANGED <<cfg, chainVars, lastScanned, scanRes, chan, dbVars, redisVars, hooks, x402Vars, restarts, calc>>

NewDeposit == [customer |-> loc.cid, amount |-> loc.amount, tx |-> msg.tx, settled_amount |-> Null, settled_tx |-> Null, settled_at |-> Null]

\* Storage::deposited 1: Deposit::insert(..).unwrap_or_default()
deposit_insert ==
    /\ pc = "deposit_insert"
    /\ \E ok \in Oks("dbw") :
          IF ok
          THEN /\ deposits' = Append(deposits, NewDeposit)
               /\ loc' = [loc EXCEPT !.did = Len(deposits) + 1]
          ELSE /\ deposits' = deposits
               /\ loc' = [loc EXCEPT !.did = 0]
    /\ pc' = "list_unused"
    /\ UNCHANGED <<cfg, chainVars, lastScanned, scanRes, chan, msg, res, sessions, customers, cursor, redisVars, hooks, x402Vars, restarts, calc>>

\* A query that lists every session of the customer, used or not.
list_all(customer) == {i \in 1..Len(sessions) : sessions[i].customer = customer}

\* A list of the customer's unused sessions that have not expired.
list_unused_unexpired(customer) == {i \in 1..Len(sessions) : sessions[i].customer = customer /\ sessions[i].deposit = Null /\ sessions[i].expired_at >= now}

\* Session::list_unused: the customer's sessions with deposit IS NULL.  The
\* query has no ORDER BY, so the order of the rows is the database's choice.
list_unused(customer) == {i \in 1..Len(sessions) : sessions[i].customer = customer /\ sessions[i].deposit = Null}

\* The sessions that can be the first listed one whose amount is the
\* deposit's (any of them, in an unordered list); {0} when there is none.
first_match(ids, amount) ==
    LET m == {i \in ids : sessions[i].amount = amount}
    IN  IF m = {} THEN {0} ELSE m

\* Storage::deposited 2: Session::list_unused(..).unwrap_or_default() and
\* the search of the matching session.
deposited_list_unused ==
    /\ pc = "list_unused"
    /\ \E ok \in Oks("dbr") :
          LET ids == IF ok THEN list_unused(loc.cid) ELSE {}
          IN  \E sid \in first_match(ids, loc.amount) :
                 /\ loc' = [loc EXCEPT !.sid = sid]
                 /\ pc' = IF sid # 0 THEN "session_used" ELSE "paid_webhook"
    /\ UNCHANGED <<cfg, chainVars, lastScanned, scanRes, chan, msg, res, dbVars, redisVars, hooks, x402Vars, restarts, calc>>

\* Storage::deposited 2: Session::used(did), its error dropped.
session_used ==
    /\ pc = "session_used"
    /\ \E ok \in Oks("dbw") :
          /\ sessions' = IF ok THEN [sessions EXCEPT ![loc.sid].deposit = loc.did] ELSE sessions
    /\ pc' = "paid_webhook"
    /\ UNCHANGED <<cfg, chainVars, lastScanned, scanRes, chan, msg, loc, res, deposits, customers, cursor, redisVars, hooks, x402Vars, restarts, calc>>

\* One webhook request; did and tx tell which deposit it belongs to (they
\* are not part of the payload).
Hook(event, sid, amount) == [event |-> event, sid |-> sid, customer |-> loc.cid, amount |-> amount, did |-> loc.did, tx |-> msg.tx]

\* A paid webhook step that goes on to Session::sent whatever send() returned.
paid_webhook_marks_always ==
    /\ pc = "paid_webhook"
    /\ \E got \in Oks("dbr") :
          IF cfg.webhook /\ got
          THEN \E delivered \in Oks("hook"), ok \in Oks("hook") :
                  /\ ok => delivered
                  /\ hooks' = IF delivered
                              THEN Append(hooks, Hook(IF loc.sid # 0 THEN "session.paid" ELSE "unknow.paid", loc.sid, loc.amount))
                              ELSE hooks
                  /\ pc' = IF loc.sid # 0 THEN "session_sent" ELSE "store_tx"
          ELSE /\ hooks' = hooks
               /\ pc' = "store_tx"
    /\ UNCHANGED <<cfg, chainVars, lastScanned, scanRes, chan, msg, loc, res, dbVars, redisVars, x402Vars, restarts, calc>>

\* Storage::deposited 3: Customer::get and Event::SessionPaid / UnknowPaid.
\* got: Customer::get succeeded; delivered: the request reached the
\* merchant; ok: send() returned Ok (a 2xx status).
paid_webhook ==
    /\ pc = "paid_webhook"
    /\ \E got \in Oks("dbr") :
          IF cfg.webhook /\ got
          THEN \E delivered \in Oks("hook"), ok \in Oks("hook") :
                  /\ ok => delivered
                  /\ hooks' = IF delivered
                              THEN Append(hooks, Hook(IF loc.sid # 0 THEN "session.paid" ELSE "unknow.paid", loc.sid, loc.amount))
                              ELSE hooks
                  /\ pc' = IF loc.sid # 0 /\ ok THEN "session_sent" ELSE "store_tx"
          ELSE /\ hooks' = hooks
               /\ pc' = "store_tx"
    /\ UNCHANGED <<cfg, chainVars, lastScanned, scanRes, chan, msg, loc, res, dbVars, redisVars, x402Vars, restarts, calc>>

\* Storage::deposited 3: Session::sent, its error dropped.
session_sent ==
    /\ pc = "session_sent"
    /\ \E ok \in Oks("dbw") :
          /\ sessions' = IF ok THEN [sessions EXCEPT ![loc.sid].sent = TRUE] ELSE sessions
    /\ pc' = "store_tx"
    /\ UNCHANGED <<cfg, chainVars, lastScanned, scanRes, chan, msg, loc, res, deposits, customers, cursor, redisVars, hooks, x402Vars, restarts, calc>>

\* Storage::deposited 4: store_transaction_in_redis, its error dropped.
store_transaction_in_redis ==
    /\ pc = "store_tx"
    /\ \E ok \in Oks("kv") :
          /\ txSeen' = IF ok THEN txSeen \cup {msg.tx} ELSE txSeen
    /\ pc' = "sweep_read"
    /\ UNCHANGED <<cfg, chainVars, lastScanned, scanRes, chan, msg, loc, res, dbVars, addrIndex, hooks, x402Vars, restarts, calc>>


\* ----------------------------------------------------------------- sweeper
\* A transaction the chain accepted: who signed it and what it does.
Tx(kind, signer, addr, amount) == [kind |-> kind, signer |-> signer, addr |-> addr, amount |-> amount]

\* ERC-20 transferFrom(addr, _, amount) does not revert.
CanTransferFrom(addr, amount) == bal[addr] >= amount /\ allow[addr] >= amount

\* A sweep that approves whatever the allowance is.
sweep_read_always_approves ==
    /\ pc = "sweep_read"
    /\ \E ok \in Oks("rpc") :
          IF ~ok THEN Return("TransferError")
          ELSE IF bal[msg.to] = 0 THEN Return("NoBalance")
          ELSE LET balance == bal[msg.to]
                   f == fee(balance, cfg.commission, i32_to_u256(cfg.commission_min, cfg.decimal), i32_to_u256(cfg.commission_max, cfg.decimal))
               IN  /\ loc' = [loc EXCEPT !.balance = balance, !.need_approve = TRUE, !.fee = f, !.real = real(balance, f)]
                   /\ pc' = "gas_send"
                   /\ UNCHANGED <<msg, res>>
    /\ UNCHANGED <<cfg, chainVars, lastScanned, scanRes, chan, dbVars, redisVars, hooks, x402Vars, restarts, calc>>

\* A sweep of the value of the deposit that triggered it.
sweep_read_deposit_value ==
    /\ pc = "sweep_read"
    /\ \E ok \in Oks("rpc") :
          IF ~ok THEN Return("TransferError")
          ELSE IF bal[msg.to] = 0 THEN Return("NoBalance")
          ELSE LET balance == Min(msg.value, bal[msg.to])
                   f == fee(balance, cfg.commission, i32_to_u256(cfg.commission_min, cfg.decimal), i32_to_u256(cfg.commission_max, cfg.decimal))
                   need_approve == allow[msg.to] < balance
               IN  /\ loc' = [loc EXCEPT !.balance = balance, !.need_approve = need_approve, !.fee = f, !.real = real(balance, f)]
                   /\ pc' = IF need_approve THEN "gas_send" ELSE "transfer_send"
                   /\ UNCHANGED <<msg, res>>
    /\ UNCHANGED <<cfg, chainVars, lastScanned, scanRes, chan, dbVars, redisVars, hooks, x402Vars, restarts, calc>>

\* transfer 1-3: get_gas_price, balanceOf, allowance, estimate_gas of the
\* placeholder approve, then fee and real.
sweep_read ==
    /\ pc = "sweep_read"
    /\ \E ok \in Oks("rpc") :
          IF ~ok THEN Return("TransferError")
          ELSE IF bal[msg.to] = 0 THEN Return("NoBalance")
          ELSE LET balance == bal[msg.to]
                   f == fee(balance, cfg.commission, i32_to_u256(cfg.commission_min, cfg.decimal), i32_to_u256(cfg.commission_max, cfg.decimal))
                   need_approve == allow[msg.to] < balance
               IN  /\ loc' = [loc EXCEPT !.balance = balance, !.need_approve = need_approve, !.fee = f, !.real = real(balance, f)]
                   /\ pc' = IF need_approve THEN "gas_send" ELSE "transfer_send"
                   /\ UNCHANGED <<msg, res>>
    /\ UNCHANGED <<cfg, chainVars, lastScanned, scanRes, chan, dbVars, redisVars, hooks, x402Vars, restarts, calc>>

\* transfer 4: the admin wallet sends the approve gas to the deposit address.
gas_send ==
    /\ pc = "gas_send"
    /\ \E ok \in Oks("rpc") :
          IF ok
          THEN /\ txs' = Append(txs, Tx("gas", "admin", msg.to, 0))
               /\ pc' = "gas_receipt"
               /\ UNCHANGED <<msg, loc, res>>
          ELSE /\ Return("TransferError")
               /\ txs' = txs
    /\ UNCHANGED <<cfg, head, logs, bal, allow, lastScanned, scanRes, chan, dbVars, redisVars, hooks, x402Vars, restarts, calc>>

\* transfer 4: pending.get_receipt() of the gas transfer.
gas_receipt ==
    /\ pc = "gas_receipt"
    /\ \E ok \in Oks("rpc") :
          IF ok
          THEN pc' = "approve_send" /\ UNCHANGED <<msg, loc, res>>
          ELSE Return("TransferError")
    /\ UNCHANGED <<cfg, chainVars, lastScanned, scanRes, chan, dbVars, redisVars, hooks, x402Vars, restarts, calc>>

\* transfer 5: totalSupply and approve(admin, total) signed by the
\* customer's key.
approve_send ==
    /\ pc = "approve_send"
    /\ \E ok \in Oks("rpc") :
          IF ok
          THEN /\ txs' = Append(txs, Tx("approve", "customer", msg.to, TotalSupply))
               /\ allow' = [allow EXCEPT ![msg.to] = TotalSupply]
               /\ pc' = "approve_receipt"
               /\ UNCHANGED <<msg, loc, res>>
          ELSE /\ Return("TransferError")
               /\ UNCHANGED <<txs, allow>>
    /\ UNCHANGED <<cfg, head, logs, bal, lastScanned, scanRes, chan, dbVars, redisVars, hooks, x402Vars, restarts, calc>>

\* transfer 5: pending.get_receipt() of the approve.
approve_receipt ==
    /\ pc = "approve_receipt"
    /\ \E ok \in Oks("rpc") :
          IF ok
          THEN pc' = "transfer_send" /\ UNCHANGED <<msg, loc, res>>
          ELSE Return("TransferError")
    /\ UNCHANGED <<cfg, chainVars, lastScanned, scanRes, chan, dbVars, redisVars, hooks, x402Vars, restarts, calc>>

\* transfer 6: transferFrom(customer, merchant, real) signed by the admin
\* wallet; send() fails when the call reverts.
transfer_send ==
    /\ pc = "transfer_send"
    /\ \E ok \in Oks("rpc") :
          IF ok /\ CanTransferFrom(msg.to, loc.real)
          THEN /\ txs' = Append(txs, Tx("transfer", "admin", msg.to, loc.real))
               /\ bal' = [bal EXCEPT ![msg.to] = @ - loc.real]
               /\ allow' = [allow EXCEPT ![msg.to] = @ - loc.real]
               /\ loc' = [loc EXCEPT !.hash = Len(txs) + 1]
               /\ pc' = "transfer_receipt"
               /\ UNCHANGED <<msg, res>>
          ELSE /\ Return("TransferError")
               /\ UNCHANGED <<txs, bal, allow>>
    /\ UNCHANGED <<cfg, head, logs, lastScanned, scanRes, chan, dbVars, redisVars, hooks, x402Vars, restarts, calc>>

\* transfer 6: pending.get_receipt() of the merchant transfer.
transfer_receipt ==
    /\ pc = "transfer_receipt"
    /\ \E ok \in Oks("rpc") :
          IF ok
          THEN pc' = (IF loc.fee > 0 THEN "fee_send" ELSE "settle") /\ UNCHANGED <<msg, loc, res>>
          ELSE Return("TransferError")
    /\ UNCHANGED <<cfg, chainVars, lastScanned, scanRes, chan, dbVars, redisVars, hooks, x402Vars, restarts, calc>>

\* transfer: transferFrom(customer, admin, fee) signed by the admin wallet.
fee_send ==
    /\ pc = "fee_send"
    /\ \E ok \in Oks("rpc") :
          IF ok /\ CanTransferFrom(msg.to, loc.fee)
          THEN /\ txs' = Append(txs, Tx("fee", "admin", msg.to, loc.fee))
               /\ bal' = [bal EXCEPT ![msg.to] = @ - loc.fee]
               /\ allow' = [allow EXCEPT ![msg.to] = @ - loc.fee]
               /\ pc' = "fee_receipt"
               /\ UNCHANGED <<msg, loc, res>>
          ELSE /\ Return("TransferError")
               /\ UNCHANGED <<txs, bal, allow>>
    /\ UNCHANGED <<cfg, head, logs, lastScanned, scanRes, chan, dbVars, redisVars, hooks, x402Vars, restarts, calc>>

\* A sweep that writes the settlement fields before the receipt of the
\* commission transfer is known.
fee_receipt_settles_first ==
    /\ pc = "fee_receipt"
    /\ \E ok \in Oks("rpc") :
          IF ok
          THEN pc' = "settle" /\ UNCHANGED <<msg, loc, res>>
          ELSE Return("TransferError")
    /\ deposits' = IF loc.did \in 1..Len(deposits)
                   THEN [deposits EXCEPT ![loc.did].settled_amount = u256_to_i32(loc.real, cfg.decimal), ![loc.did].settled_tx = loc.hash, ![loc.did].settled_at = 1]
                   ELSE deposits
    /\ UNCHANGED <<cfg, chainVars, lastScanned, scanRes, chan, sessions, customers, cursor, redisVars, hooks, x402Vars, restarts, calc>>

\* transfer: pending2.get_receipt() of the commission transfer.
fee_receipt ==
    /\ pc = "fee_receipt"
    /\ \E ok \in Oks("rpc") :
          IF ok
          THEN pc' = "settle" /\ UNCHANGED <<msg, loc, res>>
          ELSE Return("TransferError")
    /\ UNCHANGED <<cfg, chainVars, lastScanned, scanRes, chan, dbVars, redisVars, hooks, x402Vars, restarts, calc>>

\* A settle whose UPDATE is keyed by the customer instead of the row id.
deposit_settle_by_customer ==
    /\ pc = "settle"
    /\ \E ok \in Oks("dbw") :
          /\ deposits' = IF ok
                         THEN [i \in 1..Len(deposits) |->
                                 IF deposits[i].customer = loc.cid
                                 THEN [deposits[i] EXCEPT !.settled_amount = u256_to_i32(loc.real, cfg.decimal), !.settled_tx = loc.hash, !.settled_at = 1]
                                 ELSE deposits[i]]
                         ELSE deposits
    /\ pc' = "settled_webhook"
    /\ UNCHANGED <<cfg, chainVars, lastScanned, scanRes, chan, msg, loc, res, sessions, customers, cursor, redisVars, hooks, x402Vars, restarts, calc>>

\* Storage::settled 1: Deposit::settle(did, settled_amount, settled_tx), its
\* error dropped; the UPDATE touches the row of id did, if there is one.
deposit_settle ==
    /\ pc = "settle"
    /\ \E ok \in Oks("dbw") :
          /\ deposits' = IF ok /\ loc.did \in 1..Len(deposits)
                         THEN [deposits EXCEPT ![loc.did].settled_amount = u256_to_i32(loc.real, cfg.decimal), ![loc.did].settled_tx = loc.hash, ![loc.did].settled_at = 1]
                         ELSE deposits
    /\ pc' = "settled_webhook"
    /\ UNCHANGED <<cfg, chainVars, lastScanned, scanRes, chan, msg, loc, res, sessions, customers, cursor, redisVars, hooks, x402Vars, restarts, calc>>

\* Session::get_by_deposit(did): a session whose deposit is did, 0 when none.
get_by_deposit(did) ==
    LET m == {i \in 1..Len(sessions) : sessions[i].deposit = did}
    IN  IF m = {} THEN 0 ELSE CHOOSE i \in m : \A j \in m : i <= j

\* Storage::settled 1-2: Deposit::get, Customer::get, Session::get_by_deposit
\* and Event::SessionSettled / UnknowSettled; handle_evm_deposit drops the
\* result of settled and returns Ok.
settled_webhook ==
    /\ pc = "settled_webhook"
    /\ \E got \in Oks("dbr") :
          IF got /\ loc.did \in 1..Len(deposits) /\ cfg.webhook
          THEN \E found \in Oks("dbr"), delivered \in Oks("hook") :
                  LET sid == IF found THEN get_by_deposit(loc.did) ELSE 0
                  IN  hooks' = IF delivered
                               THEN Append(hooks, Hook(IF sid # 0 THEN "session.settled" ELSE "unknow.settled", sid, u256_to_i32(loc.real, cfg.decimal)))
                               ELSE hooks
          ELSE hooks' = hooks
    /\ Return("Ok")
    /\ UNCHANGED <<cfg, chainVars, lastScanned, scanRes, chan, dbVars, redisVars, x402Vars, restarts, calc>>

\* -------------------------------------------------------- process and Redis
\* The process stops (at any suspension point) and starts again:
\* ScannerService::new reads the chain cursor, Scanner::new starts from it or,
\* when it is 0, from the latest block; channel and tasks are new.
restart ==
    /\ "crash" \in cfg.faults
    /\ restarts < MaxRestarts
    /\ restarts' = restarts + 1
    /\ lastScanned' = IF cursor = 0 THEN head ELSE cursor
    /\ scanRes' = "None"
    /\ chan' = <<>>
    /\ pc' = "recv" /\ msg' = NoMsg /\ loc' = NoLoc /\ res' = "None"
    /\ xpc' = [t \in Tasks |-> Idle]
    /\ UNCHANGED <<cfg, chainVars, dbVars, redisVars, hooks, authUsed, now, payerBal, offered, built, calc>>

\* A zpt key reaches its TTL (set_ex(key, 1, 24 * 3600)).
expire_transaction ==
    /\ "ttl" \in cfg.faults
    /\ \E tx \in txSeen : txSeen' = txSeen \ {tx}
    /\ UNCHANGED <<cfg, chainVars, lastScanned, scanRes, chan, engineVars, dbVars, addrIndex, hooks, x402Vars, restarts, calc>>

\* ---------------------------------------------------- x402 payment handler
\* create_eip712_domain: the EIP-712 domain of a token contract.
create_eip712_domain(name, version, chain_id, verifying_contract) ==
    [name |-> name, version |-> version, chain_id |-> chain_id, verifying_contract |-> verifying_contract]

\* The domain the handler keeps for its asset (EvmScheme::asset).
AssetDomain == create_eip712_domain("USD Coin", "2", 1, "token")

\* transfer.eip712_signing_hash(domain): the hash binds the domain and every
\* field of the authorization, and has no collisions.
eip712_signing_hash(domain, auth) == <<domain, auth>>

\* sign_authorization: the signature of key k over the signing hash;
\* recover_address_from_prehash gives the key's address when the hash is the
\* signed one and an unrelated address otherwise.
sign_authorization(domain, auth, k) == [by |-> k, over |-> eip712_signing_hash(domain, auth)]
recover_address_from_prehash(hash, g) == IF g.over = hash THEN g.by ELSE "nobody"

\* A verification that checks the signed authorization and not the domain.
verify_authorization_any_domain(domain, auth, g) == g.over[2] = auth /\ g.by = auth.from

\* verify_authorization(domain, auth, signature)
verify_authorization(domain, auth, g) == recover_address_from_prehash(eip712_signing_hash(domain, auth), g) = auth.from

\* The VerifyRequest bodies a client may post: payment_requirements (asset,
\* max_amount_required, pay_to) and the payload's authorization and signature.
Authorizations == [from : {"payer"}, to : {"merchant", "other"}, value : {1, 2}, valid_after : {0, MaxNow}, valid_before : {0, MaxNow}, nonce : Nonces]
Signatures(a)  == {sign_authorization(AssetDomain, a, "payer"), sign_authorization(AssetDomain, a, "mallory"), sign_authorization(AssetDomain, [a EXCEPT !.value = 3 - a.value], "payer")}
Requests ==
    UNION {{[asset |-> s, max_amount_required |-> m, pay_to |-> "merchant", authorization |-> a, signature |-> g] :
               s \in {"token", "unknown"}, m \in {1, 2}, g \in Signatures(a)} : a \in Authorizations}
\* The payload the client signer builds for a requirement of amount m.
GoodReq(m, n) ==
    LET a == [from |-> "payer", to |-> "merchant", value |-> m, valid_after |-> 0, valid_before |-> MaxNow, nonce |-> n]
    IN  [asset |-> "token", max_amount_required |-> m, pay_to |-> "merchant", authorization |-> a, signature |-> sign_authorization(AssetDomain, a, "payer")]

\* Error::to_code(): the reason code of an error.
to_code(e) ==
    CASE e = "InsufficientFunds" -> "insufficient_funds"
      [] e = "InvalidExactEvmPayloadAuthorizationValidAfter" -> "invalid_exact_evm_payload_authorization_valid_after"
      [] e = "InvalidExactEvmPayloadAuthorizationValidBefore" -> "invalid_exact_evm_payload_authorization_valid_before"
      [] e = "InvalidExactEvmPayloadAuthorizationValue" -> "invalid_exact_evm_payload_authorization_value"
      [] e = "InvalidExactEvmPayloadSignature" -> "invalid_exact_evm_payload_signature"
      [] e = "InvalidExactEvmPayloadRecipientMismatch" -> "invalid_exact_evm_payload_recipient_mismatch"
      [] e = "InvalidPaymentRequirements" -> "invalid_payment_requirements"
      [] e = "InvalidTransactionState" -> "invalid_transaction_state"
      [] e = "UnexpectedVerifyError" -> "unexpected_verify_error"
      [] e = "UnsupportedScheme" -> "unsupported_scheme"

\* The responses: VerifyResponse and SettlementResponse.
Valid    == [is_valid |-> TRUE, invalid_reason |-> ""]
Success  == [success |-> TRUE, error_reason |-> ""]
\* Error::verify, Error::settle and VerifyResponse::to_settle.
Error_verify(e) == [is_valid |-> FALSE, invalid_reason |-> to_code(e)]
Error_settle(e) == [success |-> FALSE, error_reason |-> to_code(e)]
to_settle(v)    == [success |-> FALSE, error_reason |-> v.invalid_reason]

\* handle_verify without the comparison of auth.to with pay_to.
handle_verify_no_recipient(req, balance, clock) ==
    LET auth == req.authorization
    IN  IF req.asset # "token" THEN "InvalidPaymentRequirements"
        ELSE IF ~verify_authorization(AssetDomain, auth, req.signature) THEN "InvalidExactEvmPayloadSignature"
        ELSE IF balance = Null THEN "UnexpectedVerifyError"
        ELSE IF balance < auth.value THEN "InsufficientFunds"
        ELSE IF auth.value < req.max_amount_required THEN "InvalidExactEvmPayloadAuthorizationValue"
        ELSE IF clock < auth.valid_after THEN "InvalidExactEvmPayloadAuthorizationValidAfter"
        ELSE IF clock > auth.valid_before THEN "InvalidExactEvmPayloadAuthorizationValidBefore"
        ELSE "Ok"

\* handle_verify with the time window checked before the amounts.
handle_verify_window_first(req, balance, clock) ==
    LET auth == req.authorization
    IN  IF req.asset # "token" THEN "InvalidPaymentRequirements"
        ELSE IF ~verify_authorization(AssetDomain, auth, req.signature) THEN "InvalidExactEvmPayloadSignature"
        ELSE IF balance = Null THEN "UnexpectedVerifyError"
        ELSE IF clock < auth.valid_after THEN "InvalidExactEvmPayloadAuthorizationValidAfter"
        ELSE IF clock > auth.valid_before THEN "InvalidExactEvmPayloadAuthorizationValidBefore"
        ELSE IF balance < auth.value THEN "InsufficientFunds"
        ELSE IF auth.value < req.max_amount_required THEN "InvalidExactEvmPayloadAuthorizationValue"
        ELSE IF auth.to # req.pay_to THEN "InvalidExactEvmPayloadRecipientMismatch"
        ELSE "Ok"

\* handle_verify with a time window that excludes valid_before itself.
handle_verify_exclusive_window(req, balance, clock) ==
    LET auth == req.authorization
    IN  IF req.asset # "token" THEN "InvalidPaymentRequirements"
        ELSE IF ~verify_authorization(AssetDomain, auth, req.signature) THEN "InvalidExactEvmPayloadSignature"
        ELSE IF balance = Null THEN "UnexpectedVerifyError"
        ELSE IF balance < auth.value THEN "InsufficientFunds"
        ELSE IF auth.value < req.max_amount_required THEN "InvalidExactEvmPayloadAuthorizationValue"
        ELSE IF clock < auth.valid_after THEN "InvalidExactEvmPayloadAuthorizationValidAfter"
        ELSE IF clock >= auth.valid_before THEN "InvalidExactEvmPayloadAuthorizationValidBefore"
        ELSE IF auth.to # req.pay_to THEN "InvalidExactEvmPayloadRecipientMismatch"
        ELSE "Ok"

\* EvmScheme::handle_verify, steps 1 to 5: the token lookup, the signature,
\* then balanceOf (balance is Null when the call failed) and the checks on
\* the balance, the value, the clock and the recipient, in the code's order.
handle_verify_params(req, balance, clock) ==
    LET auth == req.authorization
    IN  IF req.asset # "token" THEN "InvalidPaymentRequirements"
        ELSE IF ~verify_authorization(AssetDomain, auth, req.signature) THEN "InvalidExactEvmPayloadSignature"
        ELSE IF balance = Null THEN "UnexpectedVerifyError"
        ELSE IF balance < auth.value THEN "InsufficientFunds"
        ELSE IF auth.value < req.max_amount_required THEN "InvalidExactEvmPayloadAuthorizationValue"
        ELSE IF clock < auth.valid_after THEN "InvalidExactEvmPayloadAuthorizationValidAfter"
        ELSE IF clock > auth.valid_before THEN "InvalidExactEvmPayloadAuthorizationValidBefore"
        ELSE IF auth.to # req.pay_to THEN "InvalidExactEvmPayloadRecipientMismatch"
        ELSE "Ok"

\* EvmScheme::handle_verify, step 6: authorizationState(from, nonce); ok is
\* FALSE when the call failed.
handle_verify_state(ok, is_used) ==
    IF ~ok THEN "UnexpectedVerifyError"
    ELSE IF is_used THEN "InvalidExactEvmPayloadSignature"
    ELSE "Ok"

\* The token's transferWithAuthorization does not revert (EIP-3009).
TransferAccepted(req) ==
    LET auth == req.authorization
    IN  /\ verify_authorization(AssetDomain, auth, req.signature)
        /\ now > auth.valid_after /\ now < auth.valid_before
        /\ auth.nonce \notin authUsed
        /\ payerBal >= auth.value

\* A handler task answers with the settlement response r.
Respond(t, v, r) == xpc' = [xpc EXCEPT ![t].at = "done", ![t].ver = v, ![t].resp = r]

\* api::x402_payment: Facilitator::verify, EvmScheme::handle_verify up to
\* the recipient check.  An invalid request is answered with to_settle.
x402_verify(t) ==
    /\ xpc[t].at = "idle"
    /\ \E req \in offered, ok \in Oks("rpc") :
          LET e == handle_verify_params(req, IF ok THEN payerBal ELSE Null, now)
          IN  IF e = "Ok"
              THEN xpc' = [xpc EXCEPT ![t] = [@ EXCEPT !.at = "state", !.req = req, !.balance = payerBal, !.clock = now]]
              ELSE xpc' = [xpc EXCEPT ![t] = [@ EXCEPT !.at = "done", !.req = req, !.balance = IF ok THEN payerBal ELSE Null, !.clock = now,
                                                       !.ver = Error_verify(e), !.resp = to_settle(Error_verify(e))]]
    /\ UNCHANGED <<cfg, chainVars, lastScanned, scanRes, chan, engineVars, dbVars, redisVars, hooks, authUsed, now, payerBal, offered, built, restarts, calc>>

\* EvmScheme::handle_verify, the authorizationState call, then the
\* VerifyResponse; x402_payment returns when it is not valid.
x402_verify_state(t) ==
    /\ xpc[t].at = "state"
    /\ \E ok \in Oks("rpc") :
          LET e == handle_verify_state(ok, xpc[t].req.authorization.nonce \in authUsed)
          IN  IF e = "Ok"
              THEN xpc' = [xpc EXCEPT ![t].at = "verified", ![t].ver = Valid]
              ELSE Respond(t, Error_verify(e), to_settle(Error_verify(e)))
    /\ UNCHANGED <<cfg, chainVars, lastScanned, scanRes, chan, engineVars, dbVars, redisVars, hooks, authUsed, now, payerBal, offered, built, restarts, calc>>

\* Facilitator::settle, EvmScheme::handle_settle: the token is registered,
\* then transferWithAuthorization signed by the chain's admin wallet; send()
\* fails when the call reverts in the gas estimation or the RPC fails.
x402_settle_send(t) ==
    /\ xpc[t].at = "verified"
    /\ \E ok \in BOOLEAN :
          IF ok /\ xpc[t].req.asset = "token" /\ TransferAccepted(xpc[t].req)
          THEN xpc' = [xpc EXCEPT ![t].at = "sent"]
          ELSE Respond(t, xpc[t].ver, Error_settle(IF xpc[t].req.asset = "token" THEN "InvalidTransactionState" ELSE "InvalidPaymentRequirements"))
    /\ UNCHANGED <<cfg, chainVars, lastScanned, scanRes, chan, engineVars, dbVars, redisVars, hooks, authUsed, now, payerBal, offered, built, restarts, calc>>

\* The chain includes the transaction of task t: the transfer happens and
\* the nonce is marked, or the call reverts.
x402_mined(t) ==
    /\ xpc[t].at = "sent"
    /\ IF TransferAccepted(xpc[t].req)
       THEN /\ txs' = Append(txs, Tx("x402", "admin", 0, xpc[t].req.authorization.nonce))
            /\ authUsed' = authUsed \cup {xpc[t].req.authorization.nonce}
            /\ payerBal' = payerBal - xpc[t].req.authorization.value
            /\ xpc' = [xpc EXCEPT ![t].at = "mined", ![t].status = TRUE]
       ELSE /\ xpc' = [xpc EXCEPT ![t].at = "mined", ![t].status = FALSE]
            /\ UNCHANGED <<txs, authUsed, payerBal>>
    /\ UNCHANGED <<cfg, head, logs, bal, allow, lastScanned, scanRes, chan, engineVars, dbVars, redisVars, hooks, now, offered, built, restarts, calc>>

\* EvmScheme::handle_settle: pending_tx.get_receipt(), then the response
\* with the transaction hash; the receipt's status is not read.
x402_settle_receipt(t) ==
    /\ xpc[t].at = "mined"
    /\ \E ok \in Oks("rpc") :
          Respond(t, xpc[t].ver, IF ok THEN Success ELSE Error_settle("InvalidTransactionState"))
    /\ UNCHANGED <<cfg, chainVars, lastScanned, scanRes, chan, engineVars, dbVars, redisVars, hooks, authUsed, now, payerBal, offered, built, restarts, calc>>

\* A second of the clock passes.
Tick ==
    /\ now < MaxNow
    /\ now' = now + 1
    /\ UNCHANGED <<cfg, chainVars, lastScanned, scanRes, chan, engineVars, dbVars, redisVars, hooks, xpc, authUsed, payerBal, offered, built, restarts, calc>>

\* ------------------------------------------------------- x402 client signer
\* The PaymentRequirements a server answers with: pay_to and
\* max_amount_required, max_timeout_seconds = 300 scaled to 1.
Requirements == [pay_to : {"merchant", "other"}, max_amount_required : {1, 2}, max_timeout_seconds : {1}]

\* format!("{}{}{}", from, now, pay_to) and keccak256 of its bytes; the hash
\* has no collisions.
nonce_data(from, clock, pay_to) == <<from, clock, pay_to>>
keccak256(data) == [keccak |-> data]

\* An authorization that always pays the merchant.
build_evm_authorization_to_merchant(pr, clock) ==
    [from |-> "payer", to |-> "merchant", value |-> pr.max_amount_required, valid_after |-> 0,
     valid_before |-> clock + pr.max_timeout_seconds, nonce |-> keccak256(nonce_data("payer", clock, pr.pay_to))]

\* ClientFacilitator::build_evm_authorization for the signer "payer".
build_evm_authorization(pr, clock) ==
    [from |-> "payer", to |-> pr.pay_to, value |-> pr.max_amount_required, valid_after |-> 0,
     valid_before |-> clock + pr.max_timeout_seconds, nonce |-> keccak256(nonce_data("payer", clock, pr.pay_to))]

\* ClientFacilitator::build_with_scheme: the client builds a payload.
build_with_scheme ==
    /\ Len(built) < MaxBuilds
    /\ \E pr \in Requirements : built' = Append(built, build_evm_authorization(pr, now))
    /\ UNCHANGED <<cfg, chainVars, lastScanned, scanRes, chan, engineVars, dbVars, redisVars, hooks, xpc, authUsed, now, payerBal, offered, restarts, calc>>

\* Admin-signed transactions in flight: sent, receipt not yet returned.
EngineInFlight == IF pc \in {"gas_receipt", "transfer_receipt", "fee_receipt"} THEN 1 ELSE 0
AdminInFlight  == EngineInFlight + Cardinality({t \in Tasks : xpc[t].at \in {"sent", "mined"}})

\* ---------------------------------------------------------- specifications
Engine ==
    \/ listen_scanned \/ listen_deposit
    \/ contains_address \/ no_transaction
    \/ deposit_insert \/ deposited_list_unused \/ session_used
    \/ paid_webhook \/ session_sent \/ store_transaction_in_redis
    \/ sweep_read \/ gas_send \/ gas_receipt \/ approve_send \/ approve_receipt
    \/ transfer_send \/ transfer_receipt \/ fee_send \/ fee_receipt
    \/ deposit_settle \/ settled_webhook

Next ==
    \/ Mine \/ scan_iteration \/ scan_failed \/ create_session
    \/ Engine
    \/ restart \/ expire_transaction

Spec == Init /\ [][Next]_vars

\* The engine under the scheduling of listen: the service after one session
\* may have been created, one block with Transfer logs was mined and the
\* scanner sent the block's messages.  One kind of step may fail; the task is
\* polled again whenever it can take a step (every await terminates).
InitLive ==
    /\ cfg \in {[S1Config EXCEPT !.faults = {k}] : k \in {"kv", "dbr", "dbw", "hook", "rpc"}}
    /\ \E ls \in BlockChoices \ {<<>>}, a \in Amounts, known \in BOOLEAN :
          /\ head = 1 /\ logs = <<ls>>
          /\ bal = Credit([x \in Addrs |-> 0], ls)
          /\ chan = BlockMsgs(1, ls) \o <<ScannedMsg(1)>>
          /\ sessions = IF known THEN <<[customer |-> ls[1].to, amount |-> a, deposit |-> Null, sent |-> FALSE, expired_at |-> 1 + SessionLife]>> ELSE <<>>
          /\ customers = IF known THEN {ls[1].to} ELSE {}
          /\ addrIndex = IF known THEN {ls[1].to} ELSE {}
    /\ allow = [a \in Addrs |-> 0] /\ txs = <<>>
    /\ lastScanned = 1 /\ scanRes = "Ok"
    /\ pc = "recv" /\ msg = NoMsg /\ loc = NoLoc /\ res = "None"
    /\ deposits = <<>> /\ cursor = 0
    /\ txSeen = {} /\ hooks = <<>>
    /\ xpc = [t \in Tasks |-> Idle] /\ authUsed = {}
    /\ now = 1 /\ payerBal = 0 /\ offered = {} /\ built = <<>>
    /\ restarts = 0
    /\ calc = NoCalc

NextLive == Mine \/ scan_iteration \/ scan_failed \/ Engine

LiveSpec == InitLive /\ [][NextLive]_vars /\ WF_vars(Engine)

\* The engine with two Transfers to the same deposit address already mined
\* (blocks 1 and 2) and scanned in one batch; the RPC calls of the sweep may
\* fail.  The first Transfer may be large enough for the percentage to pass
\* commission_min.
InitRetry ==
    /\ cfg = [S1Config EXCEPT !.faults = {"rpc"}]
    /\ \E v1 \in {5000000, 50000000}, v2 \in Values :
          LET l1 == [to |-> 1, value |-> v1]
              l2 == [to |-> 1, value |-> v2]
          IN  /\ head = 2 /\ logs = <<<<l1>>, <<l2>>>>
              /\ bal = Credit([x \in Addrs |-> 0], <<l1, l2>>)
              /\ chan = BlockMsgs(1, <<l1>>) \o BlockMsgs(2, <<l2>>) \o <<ScannedMsg(2)>>
    /\ sessions \in {<<>>, <<[customer |-> 1, amount |-> 5000, deposit |-> Null, sent |-> FALSE, expired_at |-> 1 + SessionLife]>>}
    /\ customers = {1} /\ addrIndex = {1}
    /\ allow = [a \in Addrs |-> 0] /\ txs = <<>>
    /\ lastScanned = 2 /\ scanRes = "Ok"
    /\ pc = "recv" /\ msg = NoMsg /\ loc = NoLoc /\ res = "None"
    /\ deposits = <<>> /\ cursor = 0
    /\ txSeen = {} /\ hooks = <<>>
    /\ xpc = [t \in Tasks |-> Idle] /\ authUsed = {}
    /\ now = 1 /\ payerBal = 0 /\ offered = {} /\ built = <<>>
    /\ restarts = 0
    /\ calc = NoCalc

SpecRetry == InitRetry /\ [][Engine]_vars

\* The engine over Deposit messages of any token and destination: two
\* Transfers, of a configured or another token, to an address that is or is
\* not in the AddressIndex; Redis commands may fail.
InitDrop ==
    /\ cfg \in {S1Config, [S1Config EXCEPT !.faults = {"kv"}]}
    /\ \E v \in Values, k1 \in {"token", "other"}, k2 \in {"token", "other"}, known \in BOOLEAN, pending \in BOOLEAN :
          LET l == [to |-> 1, value |-> v]
          IN  /\ head = 2 /\ logs = <<<<l>>, <<l>>>>
              /\ bal = Credit([x \in Addrs |-> 0], <<l, l>>)
              /\ chan = <<[DepositMsg(1, v, 1) EXCEPT !.token = k1], [DepositMsg(1, v, 2) EXCEPT !.token = k2], ScannedMsg(2)>>
              /\ customers = IF known THEN {1} ELSE {}
              /\ addrIndex = IF known THEN {1} ELSE {}
              /\ sessions = IF known /\ pending
                            THEN <<[customer |-> 1, amount |-> u256_to_i32(v, cfg.decimal), deposit |-> Null, sent |-> FALSE, expired_at |-> 1 + SessionLife]>>
                            ELSE <<>>
    /\ allow = [a \in Addrs |-> 0] /\ txs = <<>>
    /\ lastScanned = 2 /\ scanRes = "Ok"
    /\ pc = "recv" /\ msg = NoMsg /\ loc = NoLoc /\ res = "None"
    /\ deposits = <<>> /\ cursor = 0
    /\ txSeen = {} /\ hooks = <<>>
    /\ xpc = [t \in Tasks |-> Idle] /\ authUsed = {}
    /\ now = 1 /\ payerBal = 0 /\ offered = {} /\ built = <<>>
    /\ restarts = 0
    /\ calc = NoCalc

SpecDrop == InitDrop /\ [][Engine]_vars

\* The engine while the clock runs: the customer has one or two sessions of
\* the amount of the Transfers, expired before the start (expired_at = 0) or
\* expiring later; two Transfers to the customer's address were mined and
\* scanned.
InitExpire ==
    /\ cfg \in {S1Config, [S1Config EXCEPT !.faults = {"hook"}]}
    /\ \E v \in Values, e1 \in {0, 2}, e2 \in {0, 2}, two \in BOOLEAN :
          LET l == [to |-> 1, value |-> v]
              session(e) == [customer |-> 1, amount |-> u256_to_i32(v, cfg.decimal), deposit |-> Null, sent |-> FALSE, expired_at |-> e]
          IN  /\ head = 2 /\ logs = <<<<l>>, <<l>>>>
              /\ bal = Credit([x \in Addrs |-> 0], <<l, l>>)
              /\ chan = BlockMsgs(1, <<l>>) \o BlockMsgs(2, <<l>>) \o <<ScannedMsg(2)>>
              /\ sessions = IF two THEN <<session(e1), session(e2)>> ELSE <<session(e1)>>
    /\ customers = {1} /\ addrIndex = {1}
    /\ allow = [a \in Addrs |-> 0] /\ txs = <<>>
    /\ lastScanned = 2 /\ scanRes = "Ok"
    /\ pc = "recv" /\ msg = NoMsg /\ loc = NoLoc /\ res = "None"
    /\ deposits = <<>> /\ cursor = 0
    /\ txSeen = {} /\ hooks = <<>>
    /\ xpc = [t \in Tasks |-> Idle] /\ authUsed = {}
    /\ now = 1 /\ payerBal = 0 /\ offered = {} /\ built = <<>>
    /\ restarts = 0
    /\ calc = NoCalc

NextExpire == Engine \/ Tick

SpecExpire == InitExpire /\ [][NextExpire]_vars

\* The scanner under the scheduling of Scanner::run: the loop calls
\* scan_iteration again after every sleep, and its RPC calls succeed
\* eventually.  The sweep's RPC calls may fail too; the process is not
\* restarted.  One configuration has a latency of one block.
InitScan ==
    /\ cfg \in {S1Config, [S1Config EXCEPT !.faults = {"rpc"}], [S1Config EXCEPT !.latency = 1]}
    /\ InitCommon
    /\ calc = NoCalc

NextScan == Mine \/ scan_iteration \/ scan_failed \/ scan_overflow_panic \/ create_session \/ Engine

ScanSpec == InitScan /\ [][NextScan]_vars /\ WF_vars(scan_iteration)

\* The x402 payment route next to the engine: the service after one session
\* was created, one block with one Transfer was mined and the scanner sent
\* the block's messages; no store fails.
InitX402 ==
    /\ cfg = S1Config
    /\ \E l \in LogSet, a \in Amounts :
          /\ head = 1 /\ logs = <<<<l>>>>
          /\ bal = Credit([x \in Addrs |-> 0], <<l>>)
          /\ chan = <<DepositMsg(l.to, l.value, 1), ScannedMsg(1)>>
          /\ sessions = <<[customer |-> l.to, amount |-> a, deposit |-> Null, sent |-> FALSE, expired_at |-> 1 + SessionLife]>>
          /\ customers = {l.to} /\ addrIndex = {l.to}
    /\ allow = [a \in Addrs |-> 0] /\ txs = <<>>
    /\ lastScanned = 1 /\ scanRes = "Ok"
    /\ pc = "recv" /\ msg = NoMsg /\ loc = NoLoc /\ res = "None"
    /\ deposits = <<>> /\ cursor = 0
    /\ txSeen = {} /\ hooks = <<>>
    /\ xpc = [t \in Tasks |-> Idle] /\ authUsed = {}
    /\ now = 1 /\ payerBal = 2 /\ offered = {GoodReq(1, n) : n \in Nonces} /\ built = <<>>
    /\ restarts = 0
    /\ calc = NoCalc

x402_payment == \E t \in Tasks : x402_verify(t) \/ x402_verify_state(t) \/ x402_settle_send(t) \/ x402_mined(t) \/ x402_settle_receipt(t)

NextX402 == Engine \/ x402_payment

SpecX402 == InitX402 /\ [][NextX402]_vars

\* The x402 payment route alone: two handler tasks are posted the same
\* VerifyRequest, any of Requests with the first nonce, while the clock runs;
\* the payer holds one to three units of the token; RPC calls may fail in
\* one configuration.
InitPay ==
    /\ cfg \in {S1Config, [S1Config EXCEPT !.faults = {"rpc"}]}
    /\ head = 0 /\ logs = <<>>
    /\ bal = [a \in Addrs |-> 0] /\ allow = [a \in Addrs |-> 0] /\ txs = <<>>
    /\ lastScanned = 0 /\ scanRes = "None" /\ chan = <<>>
    /\ pc = "recv" /\ msg = NoMsg /\ loc = NoLoc /\ res = "None"
    /\ deposits = <<>> /\ sessions = <<>> /\ customers = {} /\ cursor = 0
    /\ addrIndex = {} /\ txSeen = {} /\ hooks = <<>>
    /\ xpc = [t \in Tasks |-> Idle] /\ authUsed = {}
    /\ now = 1 /\ payerBal \in 1..3
    /\ \E req \in Requests : req.authorization.nonce = 1 /\ offered = {req}
    /\ built = <<>>
    /\ restarts = 0
    /\ calc = NoCalc

NextPay == x402_payment \/ Tick

SpecPay == InitPay /\ [][NextPay]_vars

\* The client signer alone: it builds payloads while the clock runs.
InitClient ==
    /\ cfg = S1Config
    /\ InitCommon
    /\ calc = NoCalc

NextClient == build_with_scheme \/ Tick

SpecClient == InitClient /\ [][NextClient]_vars

\* The fee of one sweep, computed for free inputs: the balance read at step
\* 1, chain.commission, chain.commission_min and chain.commission_max (minor
\* units) and the decimals of the token.
Balances    == {0, 1, 99, 50000, 5000000, 20000000, 250000000}
Rates       == {0, 1, 5}
Commissions == {0, 5, 10, 100000}
Decimals    == {0, 2, 6}

InitFee ==
    /\ cfg = S1Config
    /\ InitCommon
    /\ calc \in [state : {"in"}, balance : Balances, rate : Rates, min : Commissions, max : Commissions, decimal : Decimals, fee : {0}, real : {0}]

\* handle_evm_deposit converts the two limits, transfer computes fee and real.
transfer_fee ==
    /\ calc.state = "in"
    /\ LET f == fee(calc.balance, calc.rate, i32_to_u256(calc.min, calc.decimal), i32_to_u256(calc.max, calc.decimal))
       IN  calc' = [calc EXCEPT !.state = "out", !.fee = f, !.real = real(calc.balance, f)]
    /\ UNCHANGED <<cfg, chainVars, lastScanned, scanRes, chan, engineVars, dbVars, redisVars, hooks, x402Vars, restarts>>

SpecFee == InitFee /\ [][transfer_fee]_vars

\* The two conversions of handle_evm_deposit, computed for free inputs: a
\* minor amount converted to atomic units and back, and two atomic amounts
\* converted to minor units.
InitConv ==
    /\ cfg = S1Config
    /\ InitCommon
    /\ \E atomics \in {{0, 1, 99, 100, 199, 50000, 1048575, 1048576, 104857599, 104857600, U256Mod - 1}} :
          calc \in [state : {"conv_in"}, amount : {0, 1, 99, 500, 100000, I32Max}, decimal : {2, 3, 4, 6},
                    value : atomics, value2 : atomics, atomic : {0}, back : {0}, minor : {0}, minor2 : {0}]

convert ==
    /\ calc.state = "conv_in"
    /\ LET a == i32_to_u256(calc.amount, calc.decimal)
       IN  calc' = [calc EXCEPT !.state = "conv_out", !.atomic = a, !.back = u256_to_i32(a, calc.decimal),
                                !.minor = u256_to_i32(calc.value, calc.decimal), !.minor2 = u256_to_i32(calc.value2, calc.decimal)]
    /\ UNCHANGED <<cfg, chainVars, lastScanned, scanRes, chan, engineVars, dbVars, redisVars, hooks, x402Vars, restarts>>

SpecConv == InitConv /\ [][convert]_vars

\* sign_authorization followed by verify_authorization, for free domains,
\* authorizations and keys; a key is named by its address.
InitSign ==
    /\ cfg = S1Config
    /\ InitCommon
    /\ \E keys \in {{"payer", "mallory"}}, domains \in {{AssetDomain, create_eip712_domain("USD Coin", "2", 2, "token")}} :
          \E auths \in {[from : keys, to : {"merchant"}, value : {1, 2}, valid_after : {0}, valid_before : {MaxNow}, nonce : {1}]} :
             calc \in [state : {"sign_in"}, domain : domains, auth : auths, key : keys,
                       vdomain : domains, vauth : auths, recovered : {"nobody"}, ok : {FALSE}]

sign_verify ==
    /\ calc.state = "sign_in"
    /\ LET g == sign_authorization(calc.domain, calc.auth, calc.key)
       IN  calc' = [calc EXCEPT !.state = "sign_out",
                                !.recovered = recover_address_from_prehash(eip712_signing_hash(calc.vdomain, calc.vauth), g),
                                !.ok = verify_authorization(calc.vdomain, calc.vauth, g)]
    /\ UNCHANGED <<cfg, chainVars, lastScanned, scanRes, chan, engineVars, dbVars, redisVars, hooks, x402Vars, restarts>>

SpecSign == InitSign /\ [][sign_verify]_vars

\* ------------------------------------------ x402 requirements and payloads
\* A string is the sequence of its characters; scheme and network names are
\* sequences of words and dashes.
SCHEME == <<"exact">>

\* format!("{}-{}", scheme, network)
identity(scheme, network) == scheme \o <<"-">> \o network

\* U256::from_str of a decimal string: the number, or an error (Null) at the
\* first character that is no digit; the empty string is 0.
RECURSIVE from_str(_)
from_str(s) ==
    IF s = <<>> THEN 0
    ELSE LET front == from_str(SubSeq(s, 1, Len(s) - 1))
             digit == [c \in {"0", "1", "5", "9"} |-> CASE c = "0" -> 0 [] c = "1" -> 1 [] c = "5" -> 5 [] c = "9" -> 9]
         IN  IF front = Null \/ s[Len(s)] \notin DOMAIN digit THEN Null
             ELSE U256Add(U256Mul(front, 10), digit[s[Len(s)]])

\* unwrap_or(U256::ZERO)
unwrap_or_zero(r) == IF r = Null THEN 0 ELSE r

\* s.split('.')
RECURSIVE split(_)
split(s) ==
    LET dots == {i \in 1..Len(s) : s[i] = "."}
    IN  IF dots = {} THEN <<s>>
        ELSE LET i == CHOOSE k \in dots : \A j \in dots : k <= j
             IN  <<SubSeq(s, 1, i - 1)>> \o split(SubSeq(s, i + 1, Len(s)))

\* A conversion that rounds the dropped digits half up.
price_to_u256_rounding(s, decimal) ==
    LET parts    == split(s)
        int_part == unwrap_or_zero(from_str(parts[1]))
        frac_value ==
            IF Len(parts) >= 2
            THEN LET frac_str      == parts[2]
                     digits_to_use == Min(Len(frac_str), decimal)
                     frac_int      == unwrap_or_zero(from_str(SubSeq(frac_str, 1, digits_to_use)))
                     up            == IF Len(frac_str) > digits_to_use /\ frac_str[digits_to_use + 1] \in {"5", "9"} THEN 1 ELSE 0
                 IN  IF digits_to_use < decimal
                     THEN U256Mul(frac_int, Pow10(decimal - digits_to_use))
                     ELSE frac_int + up
            ELSE 0
    IN  U256Add(U256Mul(int_part, Pow10(decimal)), frac_value)

\* price_to_u256(s, decimal)
price_to_u256(s, decimal) ==
    LET parts    == split(s)
        int_part == unwrap_or_zero(from_str(parts[1]))
        frac_value ==
            IF Len(parts) >= 2
            THEN LET frac_str      == parts[2]
                     digits_to_use == Min(Len(frac_str), decimal)
                     frac_int      == unwrap_or_zero(from_str(SubSeq(frac_str, 1, digits_to_use)))
                 IN  IF digits_to_use < decimal
                     THEN U256Mul(frac_int, Pow10(decimal - digits_to_use))
                     ELSE frac_int
            ELSE 0
    IN  U256Add(U256Mul(int_part, Pow10(decimal)), frac_value)

\* token_address.to_checksum(None) and its inverse, pr.asset.parse().
to_checksum(addr) == <<"0x", addr>>
parse_address(s)  == s[2]

\* EvmScheme::create: one requirement for each registered asset, in the
\* order the asset map yields them; none without an EVM payee (payee.evm is
\* None, written "none").
EvmScheme_create(handler, price, payee) ==
    IF payee = "none" THEN <<>>
    ELSE [i \in 1..Len(handler.assets) |->
            [scheme |-> handler.scheme, network |-> handler.network,
             max_amount_required |-> price_to_u256(price, handler.assets[i].decimal),
             asset |-> to_checksum(handler.assets[i].token), pay_to |-> payee, max_timeout_seconds |-> 1]]

\* Facilitator::create: the requirements of every registered scheme, in the
\* order the scheme map yields them.
RECURSIVE Facilitator_create(_, _, _)
Facilitator_create(schemes, price, payee) ==
    IF schemes = <<>> THEN <<>>
    ELSE EvmScheme_create(Head(schemes), price, payee) \o Facilitator_create(Tail(schemes), price, payee)

\* A build that signs the last requirement whose identity is registered.
build_last_matched(prs, infos, clock) ==
    LET matched == {i \in 1..Len(prs) : identity(prs[i].scheme, prs[i].network) \in DOMAIN infos}
    IN  IF matched = {} THEN [ok |-> FALSE, error |-> "No matched scheme and network"]
        ELSE LET i       == CHOOSE k \in matched : \A j \in matched : k >= j
                 pr      == prs[i]
                 domains == infos[identity(pr.scheme, pr.network)]
                 token   == parse_address(pr.asset)
                 auth    == build_evm_authorization(pr, clock)
             IN  IF token \notin DOMAIN domains THEN [ok |-> FALSE, error |-> "Token not registered"]
                 ELSE [ok |-> TRUE, chosen |-> i,
                       payload |-> [scheme |-> SCHEME, network |-> pr.network, authorization |-> auth,
                                    signature |-> sign_authorization(domains[token], auth, "payer")]]

\* ClientFacilitator::build: the payload for the first requirement whose
\* identity is registered; an error when there is none or when the client has
\* no domain for that requirement's token. infos maps an identity to the
\* domains cached by ClientFacilitator::register.
build(prs, infos, clock) ==
    LET matched == {i \in 1..Len(prs) : identity(prs[i].scheme, prs[i].network) \in DOMAIN infos}
    IN  IF matched = {} THEN [ok |-> FALSE, error |-> "No matched scheme and network"]
        ELSE LET i       == CHOOSE k \in matched : \A j \in matched : k <= j
                 pr      == prs[i]
                 domains == infos[identity(pr.scheme, pr.network)]
                 token   == parse_address(pr.asset)
                 auth    == build_evm_authorization(pr, clock)
             IN  IF token \notin DOMAIN domains THEN [ok |-> FALSE, error |-> "Token not registered"]
                 ELSE [ok |-> TRUE, chosen |-> i,
                       payload |-> [scheme |-> SCHEME, network |-> pr.network, authorization |-> auth,
                                    signature |-> sign_authorization(domains[token], auth, "payer")]]

\* Price strings of at most MaxPriceLen characters.
MaxPriceLen == 4
Prices == UNION {[1..n -> {"0", "1", "5", "9", "a", "."}] : n \in 0..MaxPriceLen}

\* The server's handlers (EvmScheme::new, EvmScheme::asset) in the order the
\* maps yield them; the first token has the decimals under test.
Servers(d) ==
    LET t1 == [token |-> "token", decimal |-> d]
        t2 == [token |-> "token2", decimal |-> 2]
        Handler(network, assets) == [scheme |-> SCHEME, network |-> network, assets |-> assets]
    IN  { <<Handler(<<"base", "-", "sepolia">>, <<t1>>)>>,
          <<Handler(<<"base">>, <<t2, t1>>), Handler(<<"base", "-", "sepolia">>, <<t1, t2>>)>> }

\* The client's registrations (ClientFacilitator::register): the domains
\* cached for each identity, built with the chain id of the client's RPC.
ClientInfos ==
    LET sepolia == identity(SCHEME, <<"base", "-", "sepolia">>)
        base    == identity(SCHEME, <<"base">>)
        ClientDomain(chain_id, token) == create_eip712_domain("USD Coin", "2", chain_id, token)
    IN  { [id \in {} |-> {}],
          [id \in {sepolia} |-> [tk \in {"token"} |-> ClientDomain(1, tk)]],
          [id \in {sepolia} |-> [tk \in {"token2"} |-> ClientDomain(1, tk)]],
          [id \in {base, sepolia} |-> [tk \in {"token", "token2"} |-> ClientDomain(IF id = base THEN 2 ELSE 1, tk)]],
          [id \in {identity(<<"exact", "-", "base">>, <<"sepolia">>)} |-> [tk \in {"token"} |-> ClientDomain(1, tk)]] }

InitCreate ==
    /\ cfg = S1Config
    /\ InitCommon
    /\ \E d \in 0..3 :
          calc \in [state : {"create_in"}, price : Prices, decimal : {d}, payee : {"none", "merchant", "other"},
                    schemes : Servers(d), infos : ClientInfos, accepts : {<<>>}, built : {[ok |-> FALSE, error |-> "none"]}]

\* x402_requirements answered by Facilitator::create, and the client's build
\* of a payload from the answer.
create_build ==
    /\ calc.state = "create_in"
    /\ LET accepts == Facilitator_create(calc.schemes, calc.price, calc.payee)
       IN  calc' = [calc EXCEPT !.state = "create_out", !.accepts = accepts, !.built = build(accepts, calc.infos, now)]
    /\ UNCHANGED <<cfg, chainVars, lastScanned, scanRes, chan, engineVars, dbVars, redisVars, hooks, x402Vars, restarts>>

SpecCreate == InitCreate /\ [][create_build]_vars

\* --------------------------------------------------- facilitator dispatch
\* Facilitator::verify and Facilitator::settle: the handler stored under the
\* identity of the payload's scheme and network answers (answer is what it
\* says; handler is the network of the handler called), and without one the
\* facilitator answers itself (handler <<>>).
Facilitator_verify(schemes, payload, answer) ==
    LET id == identity(payload.scheme, payload.network)
    IN  IF id \in DOMAIN schemes
        THEN [handler |-> schemes[id], is_valid |-> answer, invalid_reason |-> IF answer THEN "" ELSE to_code("InsufficientFunds")]
        ELSE [handler |-> <<>>, is_valid |-> FALSE, invalid_reason |-> to_code("UnsupportedScheme")]

Facilitator_settle(schemes, payload, answer) ==
    LET id == identity(payload.scheme, payload.network)
    IN  IF id \in DOMAIN schemes
        THEN [handler |-> schemes[id], success |-> answer, error_reason |-> IF answer THEN "" ELSE to_code("InvalidTransactionState"),
              transaction |-> IF answer THEN "0xhash" ELSE ""]
        ELSE [handler |-> <<>>, success |-> FALSE, error_reason |-> to_code("UnsupportedScheme"), transaction |-> ""]

\* The facilitator after Facilitator::register of handlers for some networks
\* (their scheme is SCHEME), and a request of any scheme and network.
InitDispatch ==
    /\ cfg = S1Config
    /\ InitCommon
    /\ \E nets \in SUBSET {<<"base", "-", "sepolia">>, <<"sepolia">>, <<"base">>} :
          calc \in [state : {"dispatch_in"},
                    schemes : {[id \in {identity(SCHEME, n) : n \in nets} |-> CHOOSE n \in nets : identity(SCHEME, n) = id]},
                    registered : {nets},
                    payload : [scheme : {SCHEME, <<"exact", "-", "base">>, <<"upto">>},
                               network : {<<"base", "-", "sepolia">>, <<"sepolia">>, <<"base">>}],
                    answer : BOOLEAN, route : {"verify", "settle"},
                    resp : {[handler |-> <<>>]}]

dispatch ==
    /\ calc.state = "dispatch_in"
    /\ calc' = [calc EXCEPT !.state = "dispatch_out",
                            !.resp = IF calc.route = "verify"
                                     THEN Facilitator_verify(calc.schemes, calc.payload, calc.answer)
                                     ELSE Facilitator_settle(calc.schemes, calc.payload, calc.answer)]
    /\ UNCHANGED <<cfg, chainVars, lastScanned, scanRes, chan, engineVars, dbVars, redisVars, hooks, x402Vars, restarts>>

SpecDispatch == InitDispatch /\ [][dispatch]_vars

\* ------------------------------------------------- HTTP layer and customers
\* The customers table row by row and the requests of the HTTP layer step by
\* step.  Here customers is the sequence of rows (the id of a row is its
\* position), addrIndex the set of zpc entries <<eth, id>>, and calc the
\* requests in flight.
\* generate_eth(0, id, mnemonics): the address of the derivation path of id;
\* different ids give different addresses.
generate_eth(mid, cid) == <<"eth", mid, cid>>

InitHttp ==
    /\ cfg = S1Config
    /\ head = 0 /\ logs = <<>>
    /\ bal = [a \in Addrs |-> 0] /\ allow = [a \in Addrs |-> 0] /\ txs = <<>>
    /\ lastScanned = 0 /\ scanRes = "None" /\ chan = <<>>
    /\ pc = "recv" /\ msg = NoMsg /\ loc = NoLoc /\ res = "None"
    /\ deposits = <<>> /\ sessions = <<>> /\ customers = <<>> /\ cursor = 0
    /\ addrIndex = {} /\ txSeen = {} /\ hooks = <<>>
    /\ xpc = [t \in Tasks |-> Idle] /\ authUsed = {}
    /\ now = 1 /\ payerBal = 0 /\ offered = {} /\ built = <<>>
    /\ restarts = 0
    /\ calc = [r \in Tasks |-> [at |-> "idle", route |-> "", account |-> "", id |-> 0, eth |-> <<>>]]

\* A request arrives: create_session or x402_requirements for an account.
http_request(r) ==
    /\ calc[r].at = "idle"
    /\ \E route \in {"create_session", "x402_requirements"}, account \in {"alice", "bob"} :
          calc' = [calc EXCEPT ![r] = [at |-> "get_by_account", route |-> route, account |-> account, id |-> 0, eth |-> <<>>]]
    /\ UNCHANGED <<cfg, chainVars, lastScanned, scanRes, chan, engineVars, dbVars, redisVars, hooks, x402Vars, restarts>>

\* Customer::get_or_insert: SELECT * FROM customers WHERE account = $1.
get_by_account(r) ==
    /\ calc[r].at = "get_by_account"
    /\ LET found == {i \in DOMAIN customers : customers[i].account = calc[r].account}
       IN  IF found # {}
           THEN \E i \in found : calc' = [calc EXCEPT ![r].at = "respond", ![r].id = i, ![r].eth = customers[i].eth]
           ELSE calc' = [calc EXCEPT ![r].at = "insert"]
    /\ UNCHANGED <<cfg, chainVars, lastScanned, scanRes, chan, engineVars, dbVars, redisVars, hooks, x402Vars, restarts>>

\* The uniqueness constraints of the customers table: account and eth.
unique_violation(row) == \E i \in DOMAIN customers : customers[i].account = row.account \/ customers[i].eth = row.eth

\* Customer::get_or_insert: INSERT INTO customers(account, eth, updated_at)
\* VALUES ($1, '', $3) RETURNING id; an error ends the request.
customers_insert(r) ==
    /\ calc[r].at = "insert"
    /\ LET row == [account |-> calc[r].account, eth |-> <<>>]
       IN  IF unique_violation(row)
           THEN calc' = [calc EXCEPT ![r].at = "failed"] /\ customers' = customers
           ELSE /\ customers' = Append(customers, row)
                /\ calc' = [calc EXCEPT ![r].at = "update", ![r].id = Len(customers) + 1]
    /\ UNCHANGED <<cfg, chainVars, lastScanned, scanRes, chan, engineVars, deposits, sessions, cursor, redisVars, hooks, x402Vars, restarts>>

\* An UPDATE without its WHERE clause.
customers_update_all(r) ==
    /\ calc[r].at = "update"
    /\ LET eth == generate_eth(0, calc[r].id)
       IN  /\ customers' = [i \in DOMAIN customers |-> [customers[i] EXCEPT !.eth = eth]]
           /\ calc' = [calc EXCEPT ![r].at = "respond", ![r].eth = eth]
    /\ UNCHANGED <<cfg, chainVars, lastScanned, scanRes, chan, engineVars, deposits, sessions, cursor, redisVars, hooks, x402Vars, restarts>>

\* Customer::get_or_insert: generate_eth and UPDATE customers SET eth = $1
\* WHERE id = $2.
customers_update(r) ==
    /\ calc[r].at = "update"
    /\ LET eth == generate_eth(0, calc[r].id)
       IN  /\ customers' = [customers EXCEPT ![calc[r].id].eth = eth]
           /\ calc' = [calc EXCEPT ![r].at = "respond", ![r].eth = eth]
    /\ UNCHANGED <<cfg, chainVars, lastScanned, scanRes, chan, engineVars, deposits, sessions, cursor, redisVars, hooks, x402Vars, restarts>>

\* The rest of the handler once it holds the customer: create_session
\* inserts the session and stores the address in Redis; x402_requirements
\* answers with the requirements of Facilitator::create.
http_respond(r) ==
    /\ calc[r].at = "respond"
    /\ calc' = [calc EXCEPT ![r].at = "done"]
    /\ IF calc[r].route = "create_session"
       THEN /\ sessions' = Append(sessions, [customer |-> calc[r].id, amount |-> 1, deposit |-> Null, sent |-> FALSE, expired_at |-> now + SessionLife])
            /\ addrIndex' = addrIndex \cup {<<calc[r].eth, calc[r].id>>}
       ELSE UNCHANGED <<sessions, addrIndex>>
    /\ UNCHANGED <<cfg, chainVars, lastScanned, scanRes, chan, engineVars, deposits, customers, cursor, txSeen, hooks, x402Vars, restarts>>

NextHttp == \E r \in Tasks : http_request(r) \/ get_by_account(r) \/ customers_insert(r) \/ customers_update(r) \/ http_respond(r)

SpecHttp == InitHttp /\ [][NextHttp]_vars

\* ------------------------------------------------------------------ claims
Rows == 1..Len(deposits)
PaidEvents    == {"session.paid", "unknow.paid"}
SettledEvents == {"session.settled", "unknow.settled"}
\* Positions of the engine inside evm::transfer after fee and real were
\* computed.
SweepStates == {"gas_send", "gas_receipt", "approve_send", "approve_receipt", "transfer_send", "transfer_receipt", "fee_send", "fee_receipt"}
\* Errors handle_evm_deposit returns on a failed Redis command or sweep.
TransientErrors == {"KvError", "TransferError"}
\* The block of the transaction tx (the hash of block b's transaction is b).
BlockOf(tx) == tx

\* C1: the deposits table holds at most one row per transaction hash,
\* whatever Deposit messages the engine consumed (while the process runs and
\* no zpt key has reached its TTL).
C1_OneRowPerTx ==
    (restarts = 0 /\ "ttl" \notin cfg.faults) =>
        \A i, j \in Rows : deposits[i].tx = deposits[j].tx => i = j

\* C2: after a restart the engine inserts no Deposit row and sends no paid
\* webhook for a transaction hash that already has a Deposit row.
C2_RestartSafe ==
    [][restarts > 0 =>
          /\ Len(deposits') > Len(deposits) => \A i \in Rows : deposits[i].tx # msg.tx
          /\ (Len(hooks') > Len(hooks) /\ hooks'[Len(hooks')].event \in PaidEvents) =>
                \A i \in Rows : deposits[i].tx = msg.tx => i = loc.did]_vars

\* C3: at most one transaction signed by the chain's admin wallet is in
\* flight, the x402 settle's transferWithAuthorization included.
C3_OneAdminTxInFlight == AdminInFlight <= 1

\* C4: when the handling of a Deposit message to an indexed address fails on
\* a transient error the scanner has not passed the block of its transaction, so that a later scan
\* cycle delivers the message again.
C4_FailedMessageRescanned ==
    [][(pc # "recv" /\ pc' = "recv" /\ res' \in TransientErrors /\ msg.to \in addrIndex /\ restarts' = restarts)
          => lastScanned' < BlockOf(msg.tx)]_vars

\* C5: in every sweep fee <= balance, real = balance - fee did not wrap and
\* real + fee = balance.
C5_FeeWithinBalance ==
    pc \in SweepStates =>
        /\ loc.fee <= loc.balance
        /\ loc.real = loc.balance - loc.fee
        /\ loc.real + loc.fee = loc.balance

\* The limits and the raw percentage of the stand-alone computation, in
\* unbounded integer arithmetic.
ToAtomic(m, d) == IF d > 2 THEN m * Pow10(d - 2) ELSE m \div Pow10(2 - d)
CalcMin == ToAtomic(calc.min, calc.decimal)
CalcMax == ToAtomic(calc.max, calc.decimal)
CalcRaw == (calc.balance * calc.rate) \div 100

\* C6 (as stated): with commission_rate > 0 the fee is commission_min when
\* the raw percentage is below it, commission_max when the raw percentage is
\* above it and the raw percentage otherwise, the limits being the configured
\* minor-unit values converted to atomic units.
C6_FeeIsClamp ==
    (calc.state = "out" /\ calc.rate > 0) =>
        /\ CalcRaw < CalcMin => calc.fee = CalcMin
        /\ CalcRaw > CalcMax => calc.fee = CalcMax
        /\ (CalcMin <= CalcRaw /\ CalcRaw <= CalcMax) => calc.fee = CalcRaw

\* C6 (amended): the raw percentage is (balance * rate mod 2^256) / 100; when
\* commission_min <= commission_max the fee is the raw percentage clamped to
\* the two limits, and when commission_min > commission_max the fee is
\* commission_min.
C6_FeeIsClamp_Amended ==
    (calc.state = "out" /\ calc.rate > 0) =>
        LET raw == ((calc.balance * calc.rate) % U256Mod) \div 100
        IN  /\ CalcMin <= CalcMax =>
                  calc.fee = IF raw < CalcMin THEN CalcMin ELSE IF raw > CalcMax THEN CalcMax ELSE raw
            /\ CalcMin > CalcMax => calc.fee = CalcMin

\* A fee computed with commission_min above commission_max and the raw
\* percentage above commission_max.
C6_MinAboveMax == calc.state = "out" /\ calc.rate > 0 /\ CalcMin > CalcMax /\ CalcRaw > CalcMax /\ calc.fee = CalcMin

\* Scenario S1 ran to its end: the S1 configuration, one session of amount
\* 500, one block with one Transfer of 5_000_000 to the customer's address,
\* and handle_evm_deposit returned Ok.
S1Ran ==
    /\ cfg = S1Config
    /\ head = 1 /\ logs = <<<<[to |-> 1, value |-> 5000000]>>>>
    /\ Len(sessions) = 1 /\ sessions[1].customer = 1 /\ sessions[1].amount = 500
    /\ pc = "recv" /\ res = "Ok"

\* What S1 leaves behind when the merchant receives settled minor units.
S1Outcome(settled) ==
    /\ deposits = <<[customer |-> 1, amount |-> 500, tx |-> 1, settled_amount |-> settled, settled_tx |-> 3, settled_at |-> 1]>>
    /\ sessions[1].deposit = 1
    /\ [i \in 1..Len(txs) |-> txs[i].kind] = <<"gas", "approve", "transfer", "fee">>
    /\ hooks = << [event |-> "session.paid", sid |-> 1, customer |-> 1, amount |-> 500, did |-> 1, tx |-> 1],
                  [event |-> "session.settled", sid |-> 1, customer |-> 1, amount |-> settled, did |-> 1, tx |-> 1] >>

\* C7 (as stated): scenario S1 records a Deposit of 500 attached to the
\* session, sends session.paid with 500, performs approve and transferFrom,
\* records settled_amount 495 and sends session.settled with 495.
C7_S1 == S1Ran => S1Outcome(495)

\* C7 (amended): the same scenario records settled_amount 490 and sends
\* session.settled with 490 (the raw fee 50_000 is below commission_min =
\* 100_000 atomic units, so the fee is 100_000).
C7_S1_Amended == S1Ran => S1Outcome(490)

\* Scenario S1 at its end, the deposit settled.
C7_S1_Settled == S1Ran /\ Len(deposits) = 1 /\ deposits[1].settled_amount = 490 /\ txs[3].amount = 4900000 /\ txs[4].amount = 100000

\* A webhook request of one of the events for the deposit being handled is
\* among the first n requests the merchant received.
HookSent(events, n) == \E j \in 1..n : hooks[j].event \in events /\ hooks[j].did = loc.did /\ hooks[j].tx = msg.tx

\* The sweep of the deposit being handled has sent a transaction, or is over.
SweepStarted == pc \in (SweepStates \ {"gas_send"}) \cup {"settle", "settled_webhook"}

\* C8: the paid event is sent before the first on-chain transaction of the
\* deposit's sweep (webhook configured, requests and customer look-ups
\* succeeding), and a settled event is sent only after the sweep succeeded
\* and the settlement fields of the deposit were written.
C8_WebhookOrder ==
    /\ (SweepStarted /\ cfg.webhook /\ cfg.faults \cap {"hook", "dbr"} = {}) => HookSent(PaidEvents, Len(hooks))
    /\ \A i \in 1..Len(hooks) :
          hooks[i].event \in SettledEvents =>
              /\ hooks[i].did \in Rows
              /\ deposits[hooks[i].did].settled_tx # Null
              /\ deposits[hooks[i].did].settled_amount = hooks[i].amount

\* C9: when a step of the sweep fails, the deposits table, the sessions table
\* and the zpt keys are left as they were, and the Deposit row of the message
\* has settled_amount, settled_tx and settled_at unset.
C9_SweepFailureKeepsState ==
    [][(pc \in SweepStates \cup {"sweep_read"} /\ pc' = "recv" /\ res' \in {"TransferError", "NoBalance"})
          => /\ deposits' = deposits /\ sessions' = sessions /\ txSeen' = txSeen
             /\ loc.did \in Rows =>
                   /\ deposits'[loc.did].settled_amount = Null
                   /\ deposits'[loc.did].settled_tx = Null
                   /\ deposits'[loc.did].settled_at = Null]_vars

\* The commission transferFrom failed after the merchant transferFrom was
\* confirmed: the row is unsettled, the session keeps its deposit and its
\* sent flag, the zpt key is set.
C9_FeeStepFailed ==
    /\ pc = "recv" /\ res = "TransferError"
    /\ Len(txs) > 0 /\ txs[Len(txs)].kind = "fee"
    /\ Len(deposits) = 1 /\ deposits[1].settled_tx = Null /\ deposits[1].settled_amount = Null
    /\ Len(sessions) > 0 /\ sessions[1].deposit = 1 /\ sessions[1].sent
    /\ deposits[1].tx \in txSeen

C11_SettledOnce ==
    [][\A i \in Rows :
          /\ deposits[i].settled_tx # Null => deposits'[i] = deposits[i]
          /\ deposits'[i].settled_tx # Null <=> deposits'[i].settled_amount # Null
          /\ deposits'[i].settled_tx # Null <=> deposits'[i].settled_at # Null]_vars

\* Two Deposit rows of one customer, both settled by their own sweep.
C11_TwoRowsSettled ==
    /\ Len(deposits) = 2
    /\ deposits[1].settled_tx # Null /\ deposits[2].settled_tx # Null
    /\ deposits[1].settled_tx # deposits[2].settled_tx

\* C12: the deposit of a session, once set, is never overwritten or reset,
\* and its sent flag, once true, never goes back to false.
C12_SessionMonotonic ==
    [][\A i \in 1..Len(sessions) :
          /\ sessions[i].deposit # Null => sessions'[i].deposit = sessions[i].deposit
          /\ sessions[i].sent => sessions'[i].sent]_vars

\* A session was marked and notified, and a second deposit of the same
\* amount was recorded for its customer afterwards.
C12_SecondDepositSameAmount ==
    /\ Len(sessions) > 0 /\ sessions[1].deposit = 1 /\ sessions[1].sent
    /\ Len(deposits) = 2
    /\ deposits[2].customer = sessions[1].customer /\ deposits[2].amount = sessions[1].amount
    /\ pc = "recv"

\* C13: the session marked with a deposit has the deposit's amount and is the
\* earliest-created open session of the customer with that amount.
C13_EarliestSessionMatched ==
    [][\A i \in 1..Len(sessions) :
          (sessions[i].deposit = Null /\ sessions'[i].deposit # Null) =>
              /\ sessions[i].amount = loc.amount
              /\ \A j \in 1..(i - 1) :
                    ~(sessions[j].customer = sessions[i].customer /\ sessions[j].deposit = Null /\ sessions[j].amount = loc.amount)]_vars

\* C14: while the process runs, last_scanned_block never decreases and every
\* scan iteration that sends messages increases it; the block written to the
\* chain cursor never decreases, restarts included.
C14_CursorMonotonic ==
    [][/\ restarts' = restarts => lastScanned' >= lastScanned
       /\ (restarts' = restarts /\ Len(chan') > Len(chan)) => lastScanned' > lastScanned
       /\ cursor' >= cursor]_vars

\* The cursor was written, the process restarted from it, and the scanner
\* sent the Scanned message of a later block.
C14_CursorAfterRestart == restarts > 0 /\ cursor = 1 /\ lastScanned = 2 /\ chan # <<>> /\ Head(chan) = ScannedMsg(2)

\* All Transfer logs of the mined block b are in the channel as Deposit
\* messages.
BlockSent(b) == head >= b /\ \A k \in 1..Len(logs[b]) : \E j \in 1..Len(chan) : chan[j] = DepositMsg(logs[b][k].to, logs[b][k].value, b)

\* C15: a scan iteration that sends messages sends those of the blocks right
\* after last_scanned_block up to the new last_scanned_block, then Scanned; a
\* failed iteration sends nothing and leaves last_scanned_block unchanged;
\* and the Transfer logs of every block after the scanner's starting cursor
\* are eventually sent as Deposit messages, once the block is latency blocks
\* behind the head.
C15_AtLeastOnce ==
    /\ [][Len(chan') > Len(chan) =>
             chan' = chan \o scan_range(lastScanned + 1, Min(lastScanned', head)) \o <<ScannedMsg(lastScanned')>>]_vars
    /\ [][(scanRes # "Err" /\ scanRes' = "Err") => (chan' = chan /\ lastScanned' = lastScanned)]_vars
    /\ \A b \in 1..MaxBlock : <>(head >= b + cfg.latency) => <>BlockSent(b)

\* The chain is shorter than the latency and the scanner's cursor is past
\* the block that is mined next.
C15_CursorPastHead == cfg.latency = 1 /\ head = 0 /\ lastScanned > MaxBlock
\* EvmScheme::verify of a request, all of it in the current state.
verify_now(req) ==
    LET e == handle_verify_params(req, payerBal, now)
        u == handle_verify_state(TRUE, req.authorization.nonce \in authUsed)
    IN  IF e # "Ok" THEN Error_verify(e) ELSE IF u # "Ok" THEN Error_verify(u) ELSE Valid

\* C16: when Facilitator::settle is called with a request whose verify yields
\* is_valid = false, it returns success = false with verify's reason code and
\* sends no transaction.
C16_SettleVerifiesFirst ==
    [][\A t \in Tasks :
          (xpc[t].at = "verified" /\ xpc'[t].at # "verified" /\ ~verify_now(xpc[t].req).is_valid)
             => /\ xpc'[t].at = "done"
                /\ xpc'[t].resp = to_settle(verify_now(xpc[t].req))
                /\ txs' = txs]_vars

\* A verified request whose nonce another task's settle has used since.
C16_VerifiedThenUsed == \E t \in Tasks : xpc[t].at = "verified" /\ xpc[t].req.authorization.nonce \in authUsed

\* C17: a verify that returns is_valid = true read the payer's balance and
\* the clock, and the token was registered, the recovered signer was
\* auth.from, the balance covered auth.value, auth.value covered
\* max_amount_required, the clock was inside the window, auth.to was pay_to and
\* authorizationState(from, nonce) was false.
C17_ValidMeansAllHeld ==
    [][\A t \in Tasks :
          /\ (xpc[t].at = "idle" /\ xpc'[t].at = "state") => (xpc'[t].balance = payerBal /\ xpc'[t].clock = now)
          /\ (~xpc[t].ver.is_valid /\ xpc'[t].ver.is_valid) =>
                LET req  == xpc[t].req
                    auth == xpc[t].req.authorization
                IN  /\ xpc[t].at = "state"
                    /\ req.asset = "token"
                    /\ recover_address_from_prehash(eip712_signing_hash(AssetDomain, auth), req.signature) = auth.from
                    /\ xpc[t].balance >= auth.value
                    /\ auth.value >= req.max_amount_required
                    /\ auth.valid_after <= xpc[t].clock /\ xpc[t].clock <= auth.valid_before
                    /\ auth.to = req.pay_to
                    /\ auth.nonce \notin authUsed]_vars

\* A request was verified after the clock had advanced and is being settled.
C17_VerifiedLate == \E t \in Tasks : xpc[t].at = "sent" /\ xpc[t].ver.is_valid /\ xpc[t].clock = 2

\* The conditions of verify in the order of the claim, and their reasons.
VerifyFails(req, balance, clock, used) ==
    LET auth == req.authorization
    IN  << recover_address_from_prehash(eip712_signing_hash(AssetDomain, auth), req.signature) # auth.from,
           balance < auth.value,
           auth.value < req.max_amount_required,
           clock < auth.valid_after,
           clock > auth.valid_before,
           auth.to # req.pay_to,
           used >>
VerifyReasons ==
    << "invalid_exact_evm_payload_signature", "insufficient_funds", "invalid_exact_evm_payload_authorization_value",
       "invalid_exact_evm_payload_authorization_valid_after", "invalid_exact_evm_payload_authorization_valid_before",
       "invalid_exact_evm_payload_recipient_mismatch", "invalid_exact_evm_payload_signature" >>
FirstFailing(f) == CHOOSE i \in 1..7 : f[i] /\ \A j \in 1..(i - 1) : ~f[j]

\* C18: when the token is registered and the RPC calls succeed, verify is
\* invalid exactly when one of the seven conditions fails, and its reason is
\* the one of the first that fails in the order signature, balance, value,
\* valid_after, valid_before, recipient, nonce.
C18_FirstFailingReason ==
    [][\A t \in Tasks :
          /\ (cfg.faults = {} /\ xpc[t].at = "idle" /\ xpc'[t].at # "idle" /\ xpc'[t].req.asset = "token") =>
                LET f == VerifyFails(xpc'[t].req, payerBal, now, FALSE)
                IN  IF \E i \in 1..6 : f[i]
                    THEN xpc'[t].at = "done" /\ xpc'[t].ver = [is_valid |-> FALSE, invalid_reason |-> VerifyReasons[FirstFailing(f)]]
                    ELSE xpc'[t].at = "state"
          /\ (cfg.faults = {} /\ xpc[t].at = "state" /\ xpc'[t].at # "state") =>
                IF xpc[t].req.authorization.nonce \in authUsed
                THEN xpc'[t].at = "done" /\ xpc'[t].ver = [is_valid |-> FALSE, invalid_reason |-> VerifyReasons[7]]
                ELSE xpc'[t].at = "verified" /\ xpc'[t].ver.is_valid]_vars

\* A request that is short of funds, expired and addressed to another
\* recipient was answered with insufficient_funds.
C18_SeveralFail ==
    \E t \in Tasks :
       /\ xpc[t].at = "done" /\ xpc[t].ver.invalid_reason = "insufficient_funds"
       /\ xpc[t].balance < xpc[t].req.authorization.value
       /\ xpc[t].clock > xpc[t].req.authorization.valid_before
       /\ xpc[t].req.authorization.to # xpc[t].req.pay_to

\* C19, first part: once a settle of an authorization returned success, the
\* nonce is marked and a verify of a payload with that (from, nonce) returns
\* is_valid = false with invalid_exact_evm_payload_signature.
C19_LaterVerifyRejected ==
    [][\A t \in Tasks :
          (/\ xpc[t].at = "idle" /\ xpc'[t].at # "idle"
           /\ \E u \in Tasks : xpc[u].resp.success /\ xpc[u].req.authorization.nonce = xpc'[t].req.authorization.nonce)
             => /\ xpc'[t].req.authorization.nonce \in authUsed
                /\ xpc'[t].at = "done"
                /\ xpc'[t].ver = [is_valid |-> FALSE, invalid_reason |-> "invalid_exact_evm_payload_signature"]]_vars

\* C19, second part: of the concurrent verify-then-settle requests carrying
\* the same authorization at most one returns success = true.
C19_AtMostOneSuccess ==
    \A t, u \in Tasks :
       (xpc[t].resp.success /\ xpc[u].resp.success /\ xpc[t].req.authorization = xpc[u].req.authorization) => t = u

\* Two transactions of the same authorization were sent; one was included
\* and the other reverted.
C19_BothSent == \E t, u \in Tasks : t # u /\ xpc[t].at = "mined" /\ xpc[u].at = "mined" /\ xpc[t].status /\ ~xpc[u].status

\* C20: no two authorizations the client signer built for the same from and
\* token carry the same nonce.
C20_NonceOneShot == \A i, j \in 1..Len(built) : (i # j /\ built[i].from = built[j].from) => built[i].nonce # built[j].nonce

\* Two payloads of different amounts were built for the same pay_to within
\* one second.
C20_SameSecond ==
    \E i, j \in 1..Len(built) :
       i < j /\ built[i].to = built[j].to /\ built[i].valid_before = built[j].valid_before /\ built[i].value # built[j].value

\* C24: for every decimal d >= 2 and minor amount i in 0..i32::MAX the
\* conversion to atomic units and back gives i, and for d = 2 the atomic
\* amount is i.
C24_RoundTrip ==
    calc.state = "conv_out" =>
       /\ calc.back = calc.amount
       /\ calc.decimal = 2 => calc.atomic = calc.amount

\* C24 as amended: the same whenever i * 10^(d - 2) fits the U256.
C24_RoundTrip_Amended ==
    (calc.state = "conv_out" /\ calc.amount <= (U256Mod - 1) \div Pow10(calc.decimal - 2)) =>
       /\ calc.back = calc.amount
       /\ calc.decimal = 2 => calc.atomic = calc.amount

\* The largest minor amount went through a token of four decimals.
C24_LargestConverted == calc.state = "conv_out" /\ calc.amount = I32Max /\ calc.decimal = 4 /\ calc.atomic = 104857500 /\ calc.back = I32Max

\* C25: u256_to_i32 rounds toward zero, saturates to i32::MAX when the scaled
\* value does not fit an i32, and is monotone in the atomic amount.
C25_SaturatesAndMonotone ==
    calc.state = "conv_out" =>
       /\ calc.minor = Min(calc.value \div Pow10(calc.decimal - 2), I32Max)
       /\ calc.value <= calc.value2 => calc.minor <= calc.minor2

\* An atomic amount whose minor value is i32::MAX + 1 was converted.
C25_AboveI32 == calc.state = "conv_out" /\ calc.decimal = 2 /\ calc.value = I32Max + 1

\* C28: verifying under domain D and authorization A the signature key k made
\* under D over A succeeds when A.from is the address of k; verification
\* fails whenever the recovered address differs from A.from, which includes a
\* signature made under another domain or over another authorization.
C28_SignVerifyRoundTrip ==
    calc.state = "sign_out" =>
       /\ (calc.vdomain = calc.domain /\ calc.vauth = calc.auth /\ calc.auth.from = calc.key) => calc.ok
       /\ calc.recovered # calc.vauth.from => ~calc.ok
       /\ (calc.vdomain # calc.domain \/ calc.vauth # calc.auth) => ~calc.ok

\* The signer's own signature over the same authorization was presented
\* under another domain and was rejected.
C28_OtherDomainRejected ==
    /\ calc.state = "sign_out" /\ calc.vdomain # calc.domain /\ calc.vauth = calc.auth
    /\ calc.auth.from = calc.key /\ ~calc.ok

\* C21: the payload ClientFacilitator.build returns for a requirement list of
\* Facilitator.create agrees with the requirement it returns as chosen: same
\* scheme and network, authorization.to = pay_to, authorization.value =
\* max_amount_required, and the signature is the signer's over that
\* authorization under a domain whose verifying contract is the asset.
C21_PayloadAgrees ==
    (calc.state = "create_out" /\ calc.built.ok) =>
       LET pr   == calc.accepts[calc.built.chosen]
           p    == calc.built.payload
           auth == p.authorization
       IN  /\ p.scheme = pr.scheme
           /\ p.network = pr.network
           /\ auth.to = pr.pay_to
           /\ auth.value = pr.max_amount_required
           /\ \E chain_id \in {1, 2} :
                 verify_authorization(create_eip712_domain("USD Coin", "2", chain_id, parse_address(pr.asset)), auth, p.signature)

\* The build skipped two requirements of a network the client has not
\* registered and signed the third one, for a payee other than the merchant.
C21_ThirdChosen == calc.state = "create_out" /\ calc.built.ok /\ calc.built.chosen = 3 /\ calc.payee = "other"

C29_UnknownPairNotDispatched ==
    calc.state = "dispatch_out" =>
       LET known == calc.payload.scheme = SCHEME /\ calc.payload.network \in calc.registered
       IN  /\ known => calc.resp.handler = calc.payload.network
           /\ ~known =>
                 /\ calc.resp.handler = <<>>
                 /\ calc.route = "verify" => (~calc.resp.is_valid /\ calc.resp.invalid_reason = "unsupported_scheme")
                 /\ calc.route = "settle" =>
                       (~calc.resp.success /\ calc.resp.transaction = "" /\ calc.resp.error_reason = "unsupported_scheme")

\* A settle request of scheme exact-base and network sepolia was answered by
\* the handler registered for exact and base-sepolia.
C29_OtherPairDispatched ==
    /\ calc.state = "dispatch_out" /\ calc.route = "settle"
    /\ calc.payload = [scheme |-> <<"exact", "-", "base">>, network |-> <<"sepolia">>]
    /\ calc.registered = {<<"base", "-", "sepolia">>}
    /\ calc.resp.handler = <<"base", "-", "sepolia">> /\ calc.resp.success

\* C27: with commission_rate = 0 every sweep has fee = 0 and real = balance,
\* the merchant transfer carries the whole balance read, and no commission
\* transferFrom to the admin wallet is made, whatever commission_min and
\* commission_max are.
C27_ZeroCommission ==
    cfg.commission = 0 =>
       /\ pc \in SweepStates => (loc.fee = 0 /\ loc.real = loc.balance)
       /\ pc = "transfer_receipt" => (txs[loc.hash].kind = "transfer" /\ txs[loc.hash].amount = loc.balance)
       /\ \A i \in DOMAIN txs : txs[i].kind # "fee"
       /\ pc \notin {"fee_send", "fee_receipt"}

\* A sweep without commission sent the merchant transfer and went on to the
\* settlement, with a commission_min above zero configured.
C27_SweptWithoutFee ==
    /\ cfg.commission = 0 /\ cfg.commission_min > 0 /\ pc = "settle"
    /\ \E i \in DOMAIN txs : txs[i].kind = "transfer" /\ txs[i].amount = loc.balance /\ loc.balance > 0

\* C30: the TxSeen mark of a transaction is written only after its Deposit
\* row was inserted: when the insert fails there is no TxSeen key, no session
\* marked and no paid webhook for that message.
C30_SeenOnlyAfterInsert ==
    /\ \A tx \in txSeen : \E i \in DOMAIN deposits : deposits[i].tx = tx
    /\ \A k \in DOMAIN hooks : hooks[k].event \in PaidEvents => \E i \in DOMAIN deposits : deposits[i].tx = hooks[k].tx
    /\ \A s \in DOMAIN sessions : sessions[s].deposit # Null => sessions[s].deposit \in DOMAIN deposits

\* The insert of the Deposit row failed and the transaction was marked seen.
C30_SeenWithoutRow ==
    /\ pc = "sweep_read" /\ loc.did = 0 /\ msg.tx \in txSeen
    /\ \A i \in DOMAIN deposits : deposits[i].tx # msg.tx

\* C22: once every request that creates or returns a customer has completed,
\* each Customer row with a non-empty eth address has the AddressIndex entry
\* of that address and the customer's id.
C22_IssuedAddressIndexed ==
    \A i \in DOMAIN customers :
       (customers[i].eth # <<>> /\ \A r \in Tasks : calc[r].at \in {"done", "failed"} \/ calc[r].account # customers[i].account)
          => <<customers[i].eth, i>> \in addrIndex

\* An x402_requirements request created a customer and completed.
C22_RequirementsCompleted ==
    \E r \in Tasks : calc[r].at = "done" /\ calc[r].route = "x402_requirements" /\ calc[r].id \in DOMAIN customers
                     /\ customers[calc[r].id].eth = generate_eth(0, calc[r].id) /\ addrIndex = {}

C31_SweepOrder ==
    [][/\ (pc = "sweep_read" /\ pc' # pc /\ bal[msg.to] = 0) => (txs' = txs /\ pc' = "recv" /\ res' # "Ok")
       /\ (pc = "sweep_read" /\ pc' \in SweepStates) =>
             pc' = (IF allow[msg.to] < bal[msg.to] THEN "gas_send" ELSE "transfer_send")
       /\ (pc' = "approve_send" /\ pc # pc') => (pc = "gas_receipt" /\ txs[Len(txs)].kind = "gas")
       /\ (pc' = "transfer_send" /\ pc # pc') =>
             \/ pc = "sweep_read" /\ ~loc'.need_approve
             \/ pc = "approve_receipt" /\ txs[Len(txs)].kind = "approve" /\ loc.need_approve
       /\ (pc' = "fee_send" /\ pc # pc') => (pc = "transfer_receipt" /\ loc.fee > 0 /\ Len(txs) = loc.hash)
       /\ (pc' = "settle" /\ pc # pc') =>
             /\ txs[loc.hash].kind = "transfer" /\ txs[loc.hash].addr = msg.to /\ txs[loc.hash].amount = loc.real
             /\ pc = (IF loc.fee > 0 THEN "fee_receipt" ELSE "transfer_receipt")
       /\ (txs' # txs /\ pc \in SweepStates) =>
             LET n == Len(txs')
                 k == txs'[n].kind
             IN  /\ n = Len(txs) + 1 /\ txs'[n].addr = msg.to
                 /\ k = "gas" => (pc = "gas_send" /\ loc.need_approve /\ txs'[n].signer = "admin")
                 /\ k = "approve" => (pc = "approve_send" /\ loc.need_approve /\ txs'[n].signer = "customer")
                 /\ k = "transfer" => (pc = "transfer_send" /\ txs'[n].signer = "admin" /\ loc'.hash = n)
                 /\ k = "fee" => (pc = "fee_send" /\ txs'[n].signer = "admin" /\ txs'[n].amount = loc.fee)]_vars

\* A sweep that had to approve sent its four transactions in order.
C31_FourSent ==
    /\ pc = "fee_receipt" /\ loc.need_approve /\ Len(txs) = 4
    /\ txs[1].kind = "gas" /\ txs[2].kind = "approve" /\ txs[3].kind = "transfer" /\ txs[4].kind = "fee"

\* A sweep of the message's address sent its merchant transferFrom and no
\* commission transferFrom after it.
PartialBefore ==
    \E i \in DOMAIN txs :
       /\ txs[i].kind = "transfer" /\ txs[i].addr = msg.to
       /\ \A j \in DOMAIN txs : j > i => txs[j].kind # "fee"

\* C32: when in a sweep the transferFrom to the merchant was confirmed and
\* the commission transferFrom failed, a later sweep of the same address
\* needs no new approve and transfers the outstanding commission (what the
\* first sweep left at the address) to the admin wallet.
C32_CommissionSweptLater ==
    [][(pc = "sweep_read" /\ pc' \in SweepStates /\ PartialBefore) =>
          (pc' = "transfer_send" /\ ~loc'.need_approve /\ loc'.fee >= bal[msg.to])]_vars

\* The later sweep is about to send a part of the outstanding commission to
\* the merchant.
C32_LeftoverToMerchant ==
    /\ pc = "transfer_send" /\ PartialBefore /\ ~loc.need_approve
    /\ loc.balance = 500500 /\ loc.fee = 100000 /\ loc.real = 400500

\* C33: a Deposit message whose destination address is not in the
\* AddressIndex, or whose token is not in the chain's asset map, creates no
\* Deposit row, changes no session, sends no webhook, sets no TxSeen key and
\* sends no on-chain transaction.
C33_DropsNoEffect ==
    [][(msg.type = "Deposit" /\ (msg.to \notin addrIndex \/ msg.token \notin ChainAssets)) =>
          /\ UNCHANGED <<deposits, sessions, hooks, txSeen, txs, bal, allow>>
          /\ pc' \in {"no_transaction", "recv"}]_vars

C33_Dropped ==
    /\ pc = "recv" /\ res \in {"NoToken", "NoAddress"} /\ chan = <<ScannedMsg(2)>>
    /\ deposits = <<>> /\ hooks = <<>> /\ txSeen = {} /\ txs = <<>>
    /\ \A i \in DOMAIN sessions : sessions[i].deposit = Null

\* C34: the engine takes the messages of the scanner from the head of the
\* channel, in the order sent; the Deposit messages of a batch precede its
\* Scanned message, so the cursor is persisted only after every Deposit of
\* the batch was handed to the handler; and the persisted cursor never
\* exceeds the highest block all of whose deposits were handed to the
\* handler: no Deposit of a block up to the cursor is still waiting, and a
\* block with Transfer logs is not under the cursor while the handler has
\* never run.
C34_ChannelOrder ==
    /\ [][(Len(chan') < Len(chan) /\ restarts' = restarts) =>
             /\ chan' = Tail(chan) /\ pc = "recv"
             /\ IF Head(chan).type = "Deposit"
                THEN msg' = Head(chan) /\ cursor' = cursor
                ELSE cursor' \in {cursor, Head(chan).block}]_vars
    /\ [](\A i, j \in DOMAIN chan :
             (i < j /\ chan[i].type = "Scanned" /\ chan[j].type = "Deposit") => chan[j].tx > chan[i].block)
    /\ [](\A i, j \in DOMAIN chan :
             (i < j /\ chan[i].type = "Deposit" /\ chan[j].type = "Deposit") => chan[i].tx <= chan[j].tx)
    /\ []((\A j \in DOMAIN chan : chan[j].type = "Deposit" => chan[j].tx > cursor)
             /\ (msg.type = "Deposit" => msg.tx > cursor))
    /\ [](restarts = 0 =>
             \A b \in 1..head : (b <= cursor /\ logs[b] # <<>>) => (res # "None" \/ pc # "recv"))

\* The persisted cursor is past a mined block with a Transfer log while no
\* Deposit message was ever handed to the handler.
C34_CursorPastUnhandled ==
    /\ cfg.latency = 1 /\ restarts = 0 /\ head >= 1 /\ logs[1] # <<>> /\ cursor > head
    /\ chan = <<>> /\ pc = "recv" /\ res = "None"

\* C35: every block range a scanner queries runs from last_scanned_block + 1
\* to a block that is at least latency blocks behind the head and at most
\* 100 blocks after its start; the subtraction block_number - latency never
\* underflows (it neither wraps nor panics); and no range is queried when
\* block_number - latency <= last_scanned_block.
C35_RangeBounds ==
    /\ [][Len(chan') > Len(chan) =>
             LET from_block == lastScanned + 1
                 to_block   == lastScanned'
             IN  /\ head >= cfg.latency
                 /\ head - cfg.latency > lastScanned
                 /\ from_block <= to_block
                 /\ to_block <= head - cfg.latency
                 /\ to_block <= from_block + MaxBlocksPerScan
                 /\ chan'[Len(chan')] = ScannedMsg(to_block)]_vars
    /\ [](scanRes # "Panic")

\* A range was queried that ends 100 blocks after its start on a chain
\* shorter than the latency.
C35_RangeBeyondHead ==
    /\ head < cfg.latency /\ lastScanned = 1 + MaxBlocksPerScan
    /\ chan # <<>> /\ chan[Len(chan)] = ScannedMsg(lastScanned)

\* The token, signature, balance and value checks of the request task t
\* verified have passed.
ChecksBeforeWindowPass(t) ==
    LET req == xpc[t].req
    IN  /\ xpc[t].at # "idle"
        /\ req.asset = "token"
        /\ verify_authorization(AssetDomain, req.authorization, req.signature)
        /\ xpc[t].balance # Null /\ xpc[t].balance >= req.authorization.value
        /\ req.authorization.value >= req.max_amount_required

\* C36: the time window is inclusive.  When the signature, balance and value
\* checks pass, verify answers ..._valid_after exactly when now < valid_after,
\* ..._valid_before exactly when now >= valid_after and now > valid_before,
\* and passes the time check when valid_after <= now <= valid_before.
C36_WindowInclusive ==
    \A t \in Tasks :
       ChecksBeforeWindowPass(t) =>
          LET auth   == xpc[t].req.authorization
              clock  == xpc[t].clock
              reason == xpc[t].ver.invalid_reason
          IN  /\ reason = "invalid_exact_evm_payload_authorization_valid_after" <=> clock < auth.valid_after
              /\ reason = "invalid_exact_evm_payload_authorization_valid_before" <=>
                    (clock >= auth.valid_after /\ clock > auth.valid_before)
              /\ (auth.valid_after <= clock /\ clock <= auth.valid_before) =>
                    \/ xpc[t].at # "done"
                    \/ xpc[t].ver.is_valid
                    \/ reason \in {"invalid_exact_evm_payload_recipient_mismatch", "invalid_exact_evm_payload_signature", "unexpected_verify_error"}

\* A request verified in the last second of its window, which is also the
\* first, was found valid.
C36_AtBothBounds ==
    \E t \in Tasks :
       /\ ChecksBeforeWindowPass(t) /\ xpc[t].ver.is_valid
       /\ xpc[t].clock = MaxNow
       /\ xpc[t].req.authorization.valid_after = MaxNow
       /\ xpc[t].req.authorization.valid_before = MaxNow

Registered == {i \in DOMAIN calc.accepts : identity(calc.accepts[i].scheme, calc.accepts[i].network) \in DOMAIN calc.infos}

C39_WholeBalance ==
    /\ [][(pc = "sweep_read" /\ pc' \in SweepStates) =>
             /\ loc'.balance = bal[msg.to]
             /\ loc'.fee <= loc'.balance => loc'.real + loc'.fee = bal[msg.to]]_vars
    /\ [][(pc = "transfer_send" /\ txs' # txs) =>
             /\ txs'[Len(txs')] = Tx("transfer", "admin", msg.to, loc.real)
             /\ bal'[msg.to] = bal[msg.to] - loc.real]_vars
    /\ [][(pc = "fee_send" /\ txs' # txs) => txs'[Len(txs')].amount = loc.fee]_vars
    /\ [][(pc = "settle" /\ pc' # pc /\ restarts' = restarts) =>
             /\ \A i \in DOMAIN deposits : i # loc.did => deposits'[i] = deposits[i]
             /\ deposits' # deposits =>
                   /\ deposits'[loc.did].tx = msg.tx
                   /\ deposits'[loc.did].settled_amount = u256_to_i32(loc.real, cfg.decimal)]_vars

\* The sweep for the first deposit failed; the sweep for the second one, to
\* the same address, settled more than the second deposit's amount and the
\* first row has no settlement fields.
C39_SettledExceedsDeposit ==
    /\ "rpc" \in cfg.faults /\ Len(deposits) = 2
    /\ deposits[1].customer = deposits[2].customer /\ deposits[1].tx # deposits[2].tx
    /\ deposits[1].settled_amount = Null /\ deposits[1].settled_tx = Null
    /\ deposits[2].settled_amount # Null /\ deposits[2].settled_amount > deposits[2].amount

\* C40: session expiry does not affect matching.  Session::list_unused
\* returns every session of the customer with deposit null whatever its
\* expired_at, so a deposit of the amount of an expired session still marks
\* it and still triggers session.paid.
C40_ExpiredStillMatched ==
    /\ [][(pc = "list_unused" /\ pc' # pc) =>
             LET m == {i \in DOMAIN sessions :
                         sessions[i].customer = loc.cid /\ sessions[i].deposit = Null /\ sessions[i].amount = loc.amount}
             IN  IF m = {} THEN loc'.sid = 0 /\ pc' = "paid_webhook"
                 ELSE loc'.sid \in m /\ pc' = "session_used"]_vars
    /\ [][(pc = "session_used" /\ pc' # pc) =>
             (sessions'[loc.sid].deposit = loc.did /\ pc' = "paid_webhook")]_vars
    /\ [][(pc = "paid_webhook" /\ hooks' # hooks) =>
             hooks'[Len(hooks')] = Hook(IF loc.sid # 0 THEN "session.paid" ELSE "unknow.paid", loc.sid, loc.amount)]_vars

\* A session that had expired before the deposit arrived is marked with the
\* deposit and its session.paid webhook was sent.
C40_ExpiredPaid ==
    \E i \in DOMAIN sessions :
       /\ sessions[i].expired_at = 0 /\ sessions[i].deposit # Null /\ sessions[i].sent
       /\ \E k \in DOMAIN hooks : hooks[k].event = "session.paid" /\ hooks[k].sid = i

=============================================================================
